---------------------------- MODULE Spec2Model ----------------------------
(***************************************************************************)
(* A state-machine model of rocket-league-5.py: the match state machine    *)
(* (Game), the two cars, the ball, the AI brain and the arena layout       *)
(* (LevelMap).                                                             *)
(*                                                                         *)
(* Numbers.  The program computes in floating point; the model computes    *)
(* in fixed point on integers:                                             *)
(*   time       1/TU second       (one frame at FPS = 60 is 50 units,      *)
(*                                 one millisecond is 3 units)             *)
(*   position   1/PS pixel                                                 *)
(*   velocity   1/PS pixel per second                                      *)
(*   angle      1/AU degree, kept modulo a full turn (the program only     *)
(*              uses the angle through cos, sin and differences mod 2pi)   *)
(*   boost      1/TU boost point  (so that BOOST_COST * dt is exact)       *)
(*   cos, sin   1/Milli                                                    *)
(* Products are rounded to the nearest unit (RDiv).                        *)
(*                                                                         *)
(* Not modelled (presentation only, never read by the simulation): the     *)
(* particle system, the advisory message and its timer, colours, the       *)
(* terrain renderer, the goal flash colour, the spin of ball, asteroids     *)
(* and crystal shards (the shards themselves are kept as a table),         *)
(* Car.invincible, AIBrain.state_timer, and the content of the trails      *)
(* (their lengths are kept).                                               *)
(***************************************************************************)
EXTENDS Integers, Sequences, FiniteSets, TLC

\* ------------------------------------------------------------ CONFIG ----
SCREEN_W == 1280
SCREEN_H == 720
FPS == 60
BALL_RADIUS == 16
CAR_W == 36
CAR_H == 22
GOAL_W == 22
GOAL_H == 150
BOOST_MAX_PTS == 100
BOOST_RECHARGE == 8
BOOST_COST == 30
BOOST_SPEED == 520
MAX_SPEED == 380
MATCH_TIME_S == 120

\* ------------------------------------------------------------- units ----
TU == 50 * FPS
PS == 2 * 8
AU == TU \div 20
Milli == 10 * 100
FullTurn == 360 * AU
HalfTurn == 180 * AU

\* seconds given in milliseconds -> time units
Ms(ms) == (ms * TU) \div Milli
\* pixels -> position units
Px(p) == p * PS

BOOST_MAX == BOOST_MAX_PTS * TU
MATCH_TIME == MATCH_TIME_S * TU
\* Game.run: dt = min(clock.tick(FPS) / 1000, 0.05)
DT_CAP == Ms(50)
\* one frame at FPS
DT_FRAME == TU \div FPS

\* ------------------------------------------------------ MATH HELPERS ----
Abs(a) == IF a < 0 THEN -a ELSE a
Sgn(a) == IF a < 0 THEN -1 ELSE IF a > 0 THEN 1 ELSE 0
Min(a, b) == IF a < b THEN a ELSE b
Max(a, b) == IF a > b THEN a ELSE b

\* a / b rounded to the nearest integer, halves away from zero (b > 0)
RDiv(a, b) == Sgn(a) * ((Abs(a) + b \div 2) \div b)
\* a / b truncated toward zero, as Python's int() does (b > 0)
TDiv(a, b) == Sgn(a) * (Abs(a) \div b)

RECURSIVE NewtonSqrt(_, _)
NewtonSqrt(n, x) ==
    LET y == (x + n \div x) \div 2
    IN  IF y >= x THEN x ELSE NewtonSqrt(n, y)
\* floor of the square root
ISqrt(n) == IF n <= 0 THEN 0 ELSE NewtonSqrt(n, Min(n, 46340))

\* math.sqrt(a**2 + b**2), for |a|, |b| < 32768
v2_len(a, b) == ISqrt(a * a + b * b)

\* lerp(a, b, t) with t given in tenths
lerp(a, b, tenths) == a + RDiv((b - a) * tenths, 10)

\* sin of an angle in [0, HalfTurn], in 1/Milli (Bhaskara's approximation
\* 4x(180-x) / (40500 - x(180-x)), x in degrees)
SinHalf(a) ==
    LET p == (a * (HalfTurn - a)) \div Milli
    IN  RDiv(4 * Milli * p, (40500 * AU * AU) \div Milli - p)
NormAngle(a) == a % FullTurn
Sin(a) ==
    LET n == NormAngle(a)
    IN  IF n <= HalfTurn THEN SinHalf(n) ELSE -SinHalf(n - HalfTurn)
Cos(a) == Sin(a + 90 * AU)

\* atan of the ratio num/den in [0, 1], in angle units
\* (45 r + 15.64 r (1 - r) degrees)
AtanUnit(num, den) ==
    LET r == (num * Milli) \div den
    IN  RDiv(45 * AU * r, Milli) + RDiv(((1564 * AU) \div 100) * r * (Milli - r), Milli * Milli)
\* math.atan2(dy, dx) in angle units, in (-HalfTurn, HalfTurn]
Atan2(dy, dx) ==
    LET ax == Abs(dx)
        ay == Abs(dy)
        first == IF ax = 0 /\ ay = 0 THEN 0
                 ELSE IF ay <= ax THEN AtanUnit(ay, ax)
                 ELSE 90 * AU - AtanUnit(ax, ay)
        upper == IF dx >= 0 THEN first ELSE HalfTurn - first
    IN  IF dy >= 0 THEN upper ELSE -upper

RECURSIVE Root5Up(_, _)
Root5Up(n, k) == IF (k + 1) * (k + 1) * (k + 1) * (k + 1) * (k + 1) > n THEN k ELSE Root5Up(n, k + 1)
\* dist ** 1.2 in 1/10 (dist in whole pixels, 1 <= dist <= 1500):
\* dist * (dist * 10^5) ** (1/5)
Pow12(dist) == dist * Root5Up(dist * 100000, 1)


\* ------------------------------------------------------------ random ----
\* The program draws from Python's pseudo-random generators, seeded from
\* the operating system when the process starts.  The model keeps one
\* generator state rng, chosen at start-up among NumSeeds seeds and stepped
\* once per handler; the i-th draw of a handler is Draw(rng, i).
VARIABLE rng      \* the state of the random generators
RngMod == 2 ^ 16
NumSeeds == 3
RngStep(r) == (r * 25173 + 13849) % RngMod
Draw(r, i) == (((r + i * 7919) % RngMod) * 25173 + 13849) % RngMod
\* random.uniform(lo, hi) for lo <= hi, on the integer grid
Uniform(r, i, lo, hi) == lo + ((hi - lo) * Draw(r, i)) \div RngMod

\* ------------------------------------------------- LEVEL DEFINITIONS ----
NumLevels == 5
LevelIds == 0 .. (NumLevels - 1)
\* LEVELS[level_id], as Python indexes a list of NumLevels entries: an index
\* below 0 counts from the end of the list, and an index outside
\* -NumLevels .. NumLevels - 1 raises IndexError
IndexError(lid) == lid < -NumLevels \/ lid >= NumLevels
ListIndex(lid) == lid % NumLevels
LevelCfg(lid) ==
    IF lid = 0 THEN [anomaly_types |-> {"repulsor"}, max_anomalies |-> 1,
                     max_asteroids |-> 0, hazards |-> {}]
    ELSE IF lid = 1 THEN [anomaly_types |-> {"nebula", "repulsor"}, max_anomalies |-> 3,
                     max_asteroids |-> 0, hazards |-> {"crystal_shards"}]
    ELSE IF lid = 2 THEN [anomaly_types |-> {"repulsor"}, max_anomalies |-> 2,
                     max_asteroids |-> 5, hazards |-> {"spinning_rocks"}]
    ELSE IF lid = 3 THEN [anomaly_types |-> {"black_hole"}, max_anomalies |-> 2,
                     max_asteroids |-> 2, hazards |-> {"gravity_corridors"}]
    ELSE [anomaly_types |-> {"repulsor", "nebula"}, max_anomalies |-> 2,
                     max_asteroids |-> 1, hazards |-> {"pulse_rings", "lightning_nodes"}]
\* variant: the list is indexed one entry too far
LEVELSOffByOne(lid) == LevelCfg(ListIndex(lid + 1))
LEVELS(lid) == LevelCfg(ListIndex(lid))

\* ---------------------------------------------------------- LEVEL MAP ----
\* LevelMap._generate draws the layout from random.Random(level_id*137+42),
\* after TerrainRenderer has drawn its decoration from the same generator.
\* The tables below are what that seeded generator yields for each level.
\* boost pad centres, pixels
GenPads(lid) ==
    IF lid = 0 THEN <<<<640, 360>>, <<598, 360>>, <<525, 525>>, <<355, 320>>>>
    ELSE IF lid = 1 THEN <<<<640, 360>>, <<473, 358>>, <<544, 398>>, <<893, 173>>, <<123, 596>>, <<723, 295>>, <<850, 601>>>>
    ELSE IF lid = 2 THEN <<<<640, 360>>, <<312, 145>>, <<969, 538>>, <<1127, 204>>, <<706, 116>>>>
    ELSE IF lid = 3 THEN <<<<640, 360>>, <<290, 184>>, <<1103, 312>>, <<354, 322>>, <<126, 538>>, <<771, 271>>>>
    ELSE IF lid = 4 THEN <<<<640, 360>>, <<384, 182>>, <<184, 166>>, <<717, 514>>, <<1005, 216>>>>
    ELSE IF lid = -1 THEN <<<<640, 360>>, <<1131, 119>>, <<405, 103>>, <<293, 373>>, <<516, 135>>>>
    ELSE IF lid = -2 THEN <<<<640, 360>>, <<372, 328>>, <<284, 165>>, <<676, 377>>, <<448, 518>>, <<451, 602>>>>
    ELSE IF lid = -3 THEN <<<<640, 360>>, <<758, 334>>, <<185, 104>>, <<1003, 303>>, <<346, 245>>, <<1140, 161>>>>
    ELSE IF lid = -4 THEN <<<<640, 360>>, <<669, 482>>, <<969, 366>>, <<603, 627>>, <<474, 526>>, <<825, 593>>, <<410, 199>>>>
    ELSE IF lid = -5 THEN <<<<640, 360>>, <<818, 626>>, <<526, 182>>, <<712, 343>>, <<843, 105>>, <<889, 288>>, <<884, 559>>>>
    ELSE <<>>
\* anomalies: pixels; strength in 1/100
GenAnomalies(lid) ==
    IF lid = 0 THEN <<[kind |-> "repulsor", x |-> 492, y |-> 553, radius |-> 64, strength |-> -5428]>>
    ELSE IF lid = 1 THEN <<[kind |-> "repulsor", x |-> 272, y |-> 191, radius |-> 87, strength |-> -9270], [kind |-> "nebula", x |-> 757, y |-> 326, radius |-> 86, strength |-> 3074], [kind |-> "repulsor", x |-> 644, y |-> 270, radius |-> 89, strength |-> -6037]>>
    ELSE IF lid = 2 THEN <<[kind |-> "repulsor", x |-> 294, y |-> 297, radius |-> 88, strength |-> -8177], [kind |-> "repulsor", x |-> 527, y |-> 138, radius |-> 64, strength |-> -10879]>>
    ELSE IF lid = 3 THEN <<[kind |-> "black_hole", x |-> 295, y |-> 274, radius |-> 55, strength |-> 16968], [kind |-> "black_hole", x |-> 561, y |-> 529, radius |-> 77, strength |-> 21457]>>
    ELSE IF lid = 4 THEN <<[kind |-> "repulsor", x |-> 222, y |-> 335, radius |-> 101, strength |-> -10539], [kind |-> "nebula", x |-> 893, y |-> 350, radius |-> 106, strength |-> 5435]>>
    ELSE IF lid = -1 THEN <<[kind |-> "repulsor", x |-> 864, y |-> 462, radius |-> 61, strength |-> -7160], [kind |-> "nebula", x |-> 602, y |-> 208, radius |-> 66, strength |-> 5365]>>
    ELSE IF lid = -2 THEN <<[kind |-> "black_hole", x |-> 540, y |-> 268, radius |-> 78, strength |-> 14339], [kind |-> "black_hole", x |-> 1033, y |-> 248, radius |-> 72, strength |-> 15346]>>
    ELSE IF lid = -3 THEN <<[kind |-> "repulsor", x |-> 616, y |-> 213, radius |-> 75, strength |-> -5001], [kind |-> "repulsor", x |-> 662, y |-> 413, radius |-> 101, strength |-> -8876]>>
    ELSE IF lid = -4 THEN <<[kind |-> "nebula", x |-> 1036, y |-> 464, radius |-> 109, strength |-> 2622], [kind |-> "nebula", x |-> 957, y |-> 233, radius |-> 109, strength |-> 2999], [kind |-> "nebula", x |-> 819, y |-> 142, radius |-> 62, strength |-> 4140]>>
    ELSE IF lid = -5 THEN <<[kind |-> "repulsor", x |-> 673, y |-> 176, radius |-> 112, strength |-> -7486]>>
    ELSE <<>>
\* asteroids: x, y, radius in pixels; vx, vy in velocity units
GenAsteroids(lid) ==
    IF lid = 0 THEN <<>>
    ELSE IF lid = 1 THEN <<>>
    ELSE IF lid = 2 THEN <<[x |-> 451, y |-> 458, radius |-> 31, vx |-> 908, vy |-> -110], [x |-> 537, y |-> 208, radius |-> 14, vx |-> -255, vy |-> 381], [x |-> 1031, y |-> 373, radius |-> 24, vx |-> -64, vy |-> -414], [x |-> 1053, y |-> 471, radius |-> 23, vx |-> 812, vy |-> -169], [x |-> 373, y |-> 604, radius |-> 26, vx |-> 829, vy |-> 1013]>>
    ELSE IF lid = 3 THEN <<[x |-> 691, y |-> 577, radius |-> 29, vx |-> -569, vy |-> -608], [x |-> 1080, y |-> 150, radius |-> 19, vx |-> 627, vy |-> 25]>>
    ELSE IF lid = 4 THEN <<[x |-> 633, y |-> 450, radius |-> 26, vx |-> -114, vy |-> 279]>>
    ELSE IF lid = -1 THEN <<[x |-> 835, y |-> 273, radius |-> 26, vx |-> 244, vy |-> 18]>>
    ELSE IF lid = -2 THEN <<[x |-> 1025, y |-> 267, radius |-> 27, vx |-> 483, vy |-> 199], [x |-> 377, y |-> 96, radius |-> 28, vx |-> 223, vy |-> -234]>>
    ELSE IF lid = -3 THEN <<[x |-> 526, y |-> 132, radius |-> 29, vx |-> -1046, vy |-> 751], [x |-> 610, y |-> 497, radius |-> 29, vx |-> -101, vy |-> -188], [x |-> 843, y |-> 601, radius |-> 25, vx |-> -201, vy |-> 593], [x |-> 796, y |-> 187, radius |-> 15, vx |-> -711, vy |-> 622], [x |-> 304, y |-> 246, radius |-> 25, vx |-> -1034, vy |-> 433]>>
    ELSE IF lid = -4 THEN <<>>
    ELSE IF lid = -5 THEN <<>>
    ELSE <<>>
\* crystal shards: x, y, size in pixels
GenCrystalShards(lid) ==
    IF lid = 0 THEN <<>>
    ELSE IF lid = 1 THEN <<[x |-> 594, y |-> 631, size |-> 41], [x |-> 433, y |-> 373, size |-> 42], [x |-> 584, y |-> 621, size |-> 24], [x |-> 772, y |-> 244, size |-> 45], [x |-> 988, y |-> 117, size |-> 30], [x |-> 552, y |-> 201, size |-> 42], [x |-> 678, y |-> 80, size |-> 24], [x |-> 586, y |-> 347, size |-> 28]>>
    ELSE IF lid = 2 THEN <<>>
    ELSE IF lid = 3 THEN <<>>
    ELSE IF lid = 4 THEN <<>>
    ELSE IF lid = -1 THEN <<>>
    ELSE IF lid = -2 THEN <<>>
    ELSE IF lid = -3 THEN <<>>
    ELSE IF lid = -4 THEN <<[x |-> 1045, y |-> 178, size |-> 29], [x |-> 533, y |-> 613, size |-> 19], [x |-> 1057, y |-> 173, size |-> 23], [x |-> 598, y |-> 444, size |-> 34], [x |-> 632, y |-> 511, size |-> 27], [x |-> 164, y |-> 559, size |-> 45], [x |-> 779, y |-> 521, size |-> 43], [x |-> 344, y |-> 97, size |-> 22]>>
    ELSE IF lid = -5 THEN <<>>
    ELSE <<>>
\* gravity corridors: pixels; strength in 1/10; direction in angle units
GenCorridors(lid) ==
    IF lid = 0 THEN <<>>
    ELSE IF lid = 1 THEN <<>>
    ELSE IF lid = 2 THEN <<>>
    ELSE IF lid = 3 THEN <<[x |-> 624, y |-> 267, width |-> 51, height |-> 130, strength |-> 2016, direction |-> 46167], [x |-> 776, y |-> 538, width |-> 56, height |-> 113, strength |-> 2757, direction |-> 17411], [x |-> 907, y |-> 399, width |-> 46, height |-> 177, strength |-> 2529, direction |-> 4275]>>
    ELSE IF lid = 4 THEN <<>>
    ELSE IF lid = -1 THEN <<>>
    ELSE IF lid = -2 THEN <<[x |-> 587, y |-> 365, width |-> 40, height |-> 106, strength |-> 1704, direction |-> 446], [x |-> 557, y |-> 110, width |-> 41, height |-> 160, strength |-> 1999, direction |-> 11146], [x |-> 424, y |-> 133, width |-> 59, height |-> 127, strength |-> 1643, direction |-> 16459]>>
    ELSE IF lid = -3 THEN <<>>
    ELSE IF lid = -4 THEN <<>>
    ELSE IF lid = -5 THEN <<>>
    ELSE <<>>
\* pulse rings: pixels; speed in velocity units
GenPulseRings(lid) ==
    IF lid = 0 THEN <<>>
    ELSE IF lid = 1 THEN <<>>
    ELSE IF lid = 2 THEN <<>>
    ELSE IF lid = 3 THEN <<>>
    ELSE IF lid = 4 THEN <<[cx |-> 229, cy |-> 294, max_radius |-> 110, speed |-> 2296], [cx |-> 863, cy |-> 115, max_radius |-> 90, speed |-> 1778], [cx |-> 988, cy |-> 475, max_radius |-> 153, speed |-> 2046]>>
    ELSE IF lid = -1 THEN <<[cx |-> 899, cy |-> 468, max_radius |-> 140, speed |-> 1672], [cx |-> 224, cy |-> 478, max_radius |-> 147, speed |-> 1959], [cx |-> 559, cy |-> 406, max_radius |-> 127, speed |-> 1533]>>
    ELSE IF lid = -2 THEN <<>>
    ELSE IF lid = -3 THEN <<>>
    ELSE IF lid = -4 THEN <<>>
    ELSE IF lid = -5 THEN <<>>
    ELSE <<>>
\* lightning nodes: pixels; first timer in time units
GenLightning(lid) ==
    IF lid = 0 THEN <<>>
    ELSE IF lid = 1 THEN <<>>
    ELSE IF lid = 2 THEN <<>>
    ELSE IF lid = 3 THEN <<>>
    ELSE IF lid = 4 THEN <<[x |-> 701, y |-> 347, timer |-> 6775, radius |-> 59], [x |-> 419, y |-> 116, timer |-> 9677, radius |-> 75], [x |-> 867, y |-> 517, timer |-> 7728, radius |-> 60], [x |-> 831, y |-> 128, timer |-> 5772, radius |-> 77], [x |-> 742, y |-> 593, timer |-> 11840, radius |-> 83]>>
    ELSE IF lid = -1 THEN <<[x |-> 774, y |-> 469, timer |-> 5422, radius |-> 58], [x |-> 950, y |-> 163, timer |-> 8723, radius |-> 50], [x |-> 1068, y |-> 299, timer |-> 9414, radius |-> 64], [x |-> 678, y |-> 561, timer |-> 10723, radius |-> 86], [x |-> 319, y |-> 483, timer |-> 9756, radius |-> 90]>>
    ELSE IF lid = -2 THEN <<>>
    ELSE IF lid = -3 THEN <<>>
    ELSE IF lid = -4 THEN <<>>
    ELSE IF lid = -5 THEN <<>>
    ELSE <<>>

PAD_RADIUS == 22
PAD_COOLDOWN == Ms(5000)
PAD_REFILL == 45
RING_START == 10

\* variant: the asteroid velocities and the lightning timers are drawn from
\* the generator the whole process shares, not from the seeded one
LevelMapNewShared(lid) ==
    [ pads      |-> [i \in 1 .. Len(GenPads(lid)) |-> [active |-> TRUE, cooldown |-> 0]],
      asteroids |-> [i \in 1 .. Len(GenAsteroids(lid)) |->
                        [x |-> Px(GenAsteroids(lid)[i].x), y |-> Px(GenAsteroids(lid)[i].y),
                         vx |-> Uniform(rng, i, -Px(80), Px(80)),
                         vy |-> Uniform(rng, 10 + i, -Px(64), Px(64))]],
      rings     |-> [i \in 1 .. Len(GenPulseRings(lid)) |-> Px(RING_START)],
      lightning |-> [i \in 1 .. Len(GenLightning(lid)) |->
                        [timer |-> Uniform(rng, 20 + i, Ms(1500), Ms(4000)), active |-> FALSE]] ]

\* LevelMap.__init__ / _generate: the mutable part of a fresh layout
LevelMapNew(lid) ==
    [ pads      |-> [i \in 1 .. Len(GenPads(lid)) |-> [active |-> TRUE, cooldown |-> 0]],
      asteroids |-> [i \in 1 .. Len(GenAsteroids(lid)) |->
                        [x |-> Px(GenAsteroids(lid)[i].x), y |-> Px(GenAsteroids(lid)[i].y),
                         vx |-> GenAsteroids(lid)[i].vx, vy |-> GenAsteroids(lid)[i].vy]],
      rings     |-> [i \in 1 .. Len(GenPulseRings(lid)) |-> Px(RING_START)],
      lightning |-> [i \in 1 .. Len(GenLightning(lid)) |->
                        [timer |-> GenLightning(lid)[i].timer, active |-> FALSE]] ]

\* x += v * dt
Advance(x, v, dt) == x + RDiv(v * dt, TU)

\* LevelMap.update, boost pad cooldowns
PadTick(pad, dt) ==
    IF pad.active THEN pad
    ELSE LET c == pad.cooldown - dt
         IN  [active |-> (c <= 0), cooldown |-> c]

\* LevelMap.update, asteroids
AsteroidTick(ast, radius, dt) ==
    LET nx == Advance(ast.x, ast.vx, dt)
        ny == Advance(ast.y, ast.vy, dt)
    IN  [x |-> nx, y |-> ny,
         vx |-> IF nx < Px(radius) \/ nx > Px(SCREEN_W - radius) THEN -ast.vx ELSE ast.vx,
         vy |-> IF ny < Px(radius) \/ ny > Px(SCREEN_H - radius) THEN -ast.vy ELSE ast.vy]

\* variant: a ring that has grown past max_radius is reset by the next update
RingTickLate(radius, ring, dt) ==
    IF radius > Px(ring.max_radius) THEN Px(RING_START) ELSE Advance(radius, ring.speed, dt)

\* LevelMap.update, pulse rings
RingTick(radius, ring, dt) ==
    LET r == Advance(radius, ring.speed, dt)
    IN  IF r > Px(ring.max_radius) THEN Px(RING_START) ELSE r

\* LevelMap.update, lightning nodes; the next toggle time is
\* random.uniform(0.4, 2.5) once active, random.uniform(1.0, 4.0) once inactive
LightningTick(ln, dt, r, i) ==
    LET tm == ln.timer - dt
    IN  IF tm <= 0
        THEN [active |-> ~ln.active,
              timer  |-> IF ~ln.active THEN Uniform(r, i, Ms(400), Ms(2500))
                         ELSE Uniform(r, i, Ms(1000), Ms(4000))]
        ELSE [active |-> ln.active, timer |-> tm]

\* LevelMap.update(dt); r is the generator state of this tick
LevelMapUpdate(lm, lid, dt, r) ==
    [ pads      |-> [i \in DOMAIN lm.pads |-> PadTick(lm.pads[i], dt)],
      asteroids |-> [i \in DOMAIN lm.asteroids |->
                        AsteroidTick(lm.asteroids[i], GenAsteroids(lid)[i].radius, dt)],
      rings     |-> [i \in DOMAIN lm.rings |-> RingTick(lm.rings[i], GenPulseRings(lid)[i], dt)],
      lightning |-> [i \in DOMAIN lm.lightning |-> LightningTick(lm.lightning[i], dt, r, 20 + i)] ]

\* distance between two points given in position units
Dist(ax, ay, bx, by) == v2_len(ax - bx, ay - by)

\* variant: a nebula that speeds a body up by the factor it should damp by
AnomalyForcePush(a, ox, oy, v, mass10, dt) ==
    IF a.kind = "nebula" /\ Max(PS, v2_len(Px(a.x) - ox, Px(a.y) - oy)) < Px(a.radius)
    THEN << v[1] + RDiv(v[1] * 35 * dt, 100 * TU), v[2] + RDiv(v[2] * 35 * dt, 100 * TU) >>
    ELSE v

\* LevelMap.apply_gravity, one anomaly; v = <<vx, vy>>, mass10 = 10 * mass
AnomalyForce(a, ox, oy, v, mass10, dt) ==
    LET dx == Px(a.x) - ox
        dy == Px(a.y) - oy
        dist == Max(PS, v2_len(dx, dy))
        f1 == RDiv(a.strength * dt * PS, TU)
        den == Pow12(Max(1, RDiv(dist, PS))) * mass10 * dist
    IN  IF a.kind = "nebula"
        THEN IF dist < Px(a.radius)
             THEN << v[1] - RDiv(v[1] * 35 * dt, 100 * TU), v[2] - RDiv(v[2] * 35 * dt, 100 * TU) >>
             ELSE v
        ELSE IF dist < Px(a.radius * 3)
             THEN << v[1] + RDiv(f1 * dx, den), v[2] + RDiv(f1 * dy, den) >>
             ELSE v

\* LevelMap.apply_gravity, one gravity corridor
CorridorForce(gc, ox, oy, v, mass10, dt) ==
    LET dx == ox - Px(gc.x)
        dy == oy - Px(gc.y)
        g == RDiv(gc.strength * dt * PS, TU)
    IN  IF 2 * Abs(dx) < Px(gc.width) /\ 2 * Abs(dy) < Px(gc.height)
        THEN << v[1] + RDiv(Cos(gc.direction) * g, Milli * mass10),
                v[2] + RDiv(Sin(gc.direction) * g, Milli * mass10) >>
        ELSE v

RECURSIVE AnomalyLoop(_, _, _, _, _, _, _)
AnomalyLoop(as, i, ox, oy, v, mass10, dt) ==
    IF i > Len(as) THEN v
    ELSE AnomalyLoop(as, i + 1, ox, oy, AnomalyForce(as[i], ox, oy, v, mass10, dt), mass10, dt)

RECURSIVE CorridorLoop(_, _, _, _, _, _, _)
CorridorLoop(gcs, i, ox, oy, v, mass10, dt) ==
    IF i > Len(gcs) THEN v
    ELSE CorridorLoop(gcs, i + 1, ox, oy, CorridorForce(gcs[i], ox, oy, v, mass10, dt), mass10, dt)

\* LevelMap.apply_gravity(ox, oy, vx, vy, mass, dt) -> <<vx, vy>>
apply_gravity(lid, ox, oy, vx, vy, mass10, dt) ==
    CorridorLoop(GenCorridors(lid), 1, ox, oy,
                 AnomalyLoop(GenAnomalies(lid), 1, ox, oy, <<vx, vy>>, mass10, dt),
                 mass10, dt)

\* LevelMap.check_hazard_hit(ox, oy, radius); radius in pixels
check_hazard_hit(lm, lid, ox, oy, radius) ==
    \/ \E i \in DOMAIN lm.lightning :
          /\ lm.lightning[i].active
          /\ Dist(ox, oy, Px(GenLightning(lid)[i].x), Px(GenLightning(lid)[i].y))
                < Px(GenLightning(lid)[i].radius + radius)
    \/ \E i \in DOMAIN lm.rings :
          Abs(Dist(ox, oy, Px(GenPulseRings(lid)[i].cx), Px(GenPulseRings(lid)[i].cy)) - lm.rings[i])
                < Px(10 + radius)

\* ---------------------------------------------------------------- CAR ----
CAR_HALF == Max(CAR_W, CAR_H) \div 2
CAR_PAD == 30
CAR_TRAIL_MAX == 22
CAR_ACCEL == 400
CAR_TURN_RATE == 220
AST_PUSH == 220
PAD_REACH == 16
BOOST_MIN_PTS == 5

\* Car.__init__
CarNew(x, y) ==
    [x |-> Px(x), y |-> Px(y), vx |-> 0, vy |-> 0, angle |-> 0,
     boost |-> BOOST_MAX, score |-> 0, boosting |-> FALSE, trail |-> 0]

\* v + cos_or_sin * accel * dt  (accel in pixels per second squared)
Thrust(v, trig, accel, dt) == v + RDiv(trig * accel * PS * dt, Milli * TU)

\* variant: boosting whatever the meter shows
BoostingAtAnyLevel(car, forward, boost_key) == boost_key /\ forward

\* Car.apply_input: the boosting decision
BoostingNow(car, forward, boost_key) ==
    boost_key /\ car.boost > BOOST_MIN_PTS * TU /\ forward

\* Car.apply_input: the boost meter after the call
BoostAfterInput(boost, boosting, dt) ==
    IF boosting THEN boost - BOOST_COST * dt
    ELSE Min(BOOST_MAX, boost + BOOST_RECHARGE * dt)

\* Car.apply_input(left, right, forward, back, boost_key, dt)
apply_input(car, left, right, forward, back, boost_key, dt) ==
    LET rot == RDiv(CAR_TURN_RATE * AU * dt, TU)
        Fwd(v, trig) == IF forward THEN Thrust(v, trig, CAR_ACCEL, dt) ELSE v
        Back(v, trig) == IF back THEN Thrust(v, -trig, CAR_ACCEL \div 2, dt) ELSE v
        Boost(v, trig, boosting) == IF boosting THEN Thrust(v, trig, BOOST_SPEED, dt) ELSE v
        Axis(v, trig, boosting) == Boost(Back(Fwd(v, trig), trig), trig, boosting)
        Capped(v, spd, max_s) == IF spd > max_s THEN RDiv(v * max_s, spd) ELSE v
        Drag(v) == RDiv(v * (IF ~forward /\ ~back THEN 992 ELSE 999), Milli)
        Limit(ang, boosting, vx, vy, spd, max_s) ==
            [car EXCEPT !.angle = ang,
                        !.boosting = boosting,
                        !.boost = BoostAfterInput(car.boost, boosting, dt),
                        !.vx = Drag(Capped(vx, spd, max_s)),
                        !.vy = Drag(Capped(vy, spd, max_s))]
        Pushed(ang, boosting, vx, vy) ==
            Limit(ang, boosting, vx, vy, v2_len(vx, vy),
                  Px(IF boosting THEN BOOST_SPEED ELSE MAX_SPEED))
        Turned(ang, boosting) ==
            Pushed(ang, boosting, Axis(car.vx, Cos(ang), boosting), Axis(car.vy, Sin(ang), boosting))
    IN  Turned(NormAngle(car.angle - (IF left THEN rot ELSE 0) + (IF right THEN rot ELSE 0)),
               BoostingNow(car, forward, boost_key))

\* clamp to [lo, hi] with the velocity reflected inward and scaled by
\* restitution/10: <<position, velocity>>
Bounce(x, v, lo, hi, rest10) ==
    IF x < lo THEN << lo, RDiv(Abs(v) * rest10, 10) >>
    ELSE IF x > hi THEN << hi, -RDiv(Abs(v) * rest10, 10) >>
    ELSE << x, v >>

\* Car.update: the push of one asteroid on the velocity v = <<vx, vy>>
CarAsteroidPush(x, y, v, ast, radius) ==
    LET Push(dx, dy, d) ==
            IF d < Px(radius + CAR_HALF) /\ 10 * d > PS
            THEN << v[1] + RDiv(dx * Px(AST_PUSH), d), v[2] + RDiv(dy * Px(AST_PUSH), d) >>
            ELSE v
    IN  Push(x - ast.x, y - ast.y, v2_len(x - ast.x, y - ast.y))

RECURSIVE CarAsteroidLoop(_, _, _, _, _, _)
CarAsteroidLoop(asts, lid, i, x, y, v) ==
    IF i > Len(asts) THEN v
    ELSE CarAsteroidLoop(asts, lid, i + 1, x, y,
                         CarAsteroidPush(x, y, v, asts[i], GenAsteroids(lid)[i].radius))

\* variant: a pad is picked up whether or not it is active
PadInReachAnyPad(pads, lid, i, x, y) ==
    Dist(x, y, Px(GenPads(lid)[i][1]), Px(GenPads(lid)[i][2])) < Px(PAD_RADIUS + PAD_REACH)

\* Car.update: whether the car at (x, y) picks up pad i
PadInReach(pads, lid, i, x, y) ==
    /\ pads[i].active
    /\ Dist(x, y, Px(GenPads(lid)[i][1]), Px(GenPads(lid)[i][2])) < Px(PAD_RADIUS + PAD_REACH)

\* variant: a pad fills the meter
PadRefillFull(boost) == BOOST_MAX

\* Car.update: the boost meter after one pad pickup
PadRefill(boost) == Min(BOOST_MAX, boost + PAD_REFILL * TU)

RECURSIVE PadLoop(_, _, _, _, _, _)
PadLoop(pads, lid, i, x, y, boost) ==
    IF i > Len(pads) THEN boost
    ELSE PadLoop(pads, lid, i + 1, x, y,
                 IF PadInReach(pads, lid, i, x, y) THEN PadRefill(boost) ELSE boost)

\* Car.update(dt, level_map) -> [car, pads]
CarUpdate(car, dt, lm, lid) ==
    LET Result(x, y, v) ==
            [car  |-> [car EXCEPT !.x = x, !.y = y, !.vx = v[1], !.vy = v[2],
                                  !.trail = Min(CAR_TRAIL_MAX, car.trail + 1),
                                  !.boost = PadLoop(lm.pads, lid, 1, x, y, car.boost)],
             pads |-> [i \in DOMAIN lm.pads |->
                         IF PadInReach(lm.pads, lid, i, x, y)
                         THEN [active |-> FALSE, cooldown |-> PAD_COOLDOWN]
                         ELSE lm.pads[i]]]
        Clamped(bx, by) ==
            Result(bx[1], by[1],
                   CarAsteroidLoop(lm.asteroids, lid, 1, bx[1], by[1], << bx[2], by[2] >>))
        Moved(g) ==
            Clamped(Bounce(Advance(car.x, g[1], dt), g[1], Px(CAR_PAD), Px(SCREEN_W - CAR_PAD), 6),
                    Bounce(Advance(car.y, g[2], dt), g[2], Px(CAR_PAD), Px(SCREEN_H - CAR_PAD), 6))
    IN  Moved(apply_gravity(lid, car.x, car.y, car.vx, car.vy, 10, dt))

\* --------------------------------------------------------------- BALL ----
BALL_TRAIL_MAX == 16
BALL_MAX_SPEED == 750
BALL_AST_SPEED == 160
HIT_FLOOR == 260
HIT_BOOST_BONUS == 200
HIT_RECOIL == 80
KICK_VX == 120
KICK_VY == 90

\* Ball.reset(); the two velocity draws are draws i and i+1 of generator r
BallReset(r, i) ==
    [x |-> Px(SCREEN_W \div 2), y |-> Px(SCREEN_H \div 2),
     vx |-> Uniform(r, i, -Px(KICK_VX), Px(KICK_VX)),
     vy |-> Uniform(r, i + 1, -Px(KICK_VY), Px(KICK_VY)),
     trail |-> 0]

\* Ball.update: contact with one asteroid; b = [x, y, vx, vy]
BallAsteroidHit(b, ast, radius) ==
    LET Hit(dx, dy, d, spd, out) ==
            IF d < Px(BALL_RADIUS + radius) /\ 10 * d > PS
            THEN [b EXCEPT !.vx = RDiv(dx * spd, d), !.vy = RDiv(dy * spd, d),
                           !.x = ast.x + RDiv(dx * out, d), !.y = ast.y + RDiv(dy * out, d)]
            ELSE b
    IN  Hit(b.x - ast.x, b.y - ast.y, v2_len(b.x - ast.x, b.y - ast.y),
            Max(v2_len(b.vx, b.vy), Px(BALL_AST_SPEED)), Px(BALL_RADIUS + radius + 2))

RECURSIVE BallAsteroidLoop(_, _, _, _)
BallAsteroidLoop(asts, lid, i, b) ==
    IF i > Len(asts) THEN b
    ELSE BallAsteroidLoop(asts, lid, i + 1,
                          BallAsteroidHit(b, asts[i], GenAsteroids(lid)[i].radius))

\* Ball.update: the global speed cap
BallSpeedCap(b) ==
    LET Cap(spd) ==
            IF spd > Px(BALL_MAX_SPEED)
            THEN [b EXCEPT !.vx = RDiv(b.vx * Px(BALL_MAX_SPEED), spd),
                           !.vy = RDiv(b.vy * Px(BALL_MAX_SPEED), spd)]
            ELSE b
    IN  Cap(v2_len(b.vx, b.vy))

\* Ball.update: the clamp to the screen
BallClamp(b) ==
    LET Clamped(bx, by) == [b EXCEPT !.x = bx[1], !.vx = bx[2], !.y = by[1], !.vy = by[2]]
    IN  Clamped(Bounce(b.x, b.vx, Px(BALL_RADIUS), Px(SCREEN_W - BALL_RADIUS), 9),
                Bounce(b.y, b.vy, Px(BALL_RADIUS), Px(SCREEN_H - BALL_RADIUS), 9))

\* Ball.update(dt, level_map)
BallUpdate(ball, dt, lm, lid) ==
    LET Moved(g) ==
            [ball EXCEPT !.x = Advance(ball.x, g[1], dt), !.y = Advance(ball.y, g[2], dt),
                         !.vx = g[1], !.vy = g[2],
                         !.trail = Min(BALL_TRAIL_MAX, ball.trail + 1)]
    IN  BallSpeedCap(BallAsteroidLoop(lm.asteroids, lid, 1,
            BallClamp(Moved(apply_gravity(lid, ball.x, ball.y, ball.vx, ball.vy, 7, dt)))))

\* Ball.car_hit: where the ball is put after a hit, along the contact normal
HitPlace(carpos, delta, d) == carpos + RDiv(delta * Px(BALL_RADIUS + CAR_HALF + 2), d)

\* Ball.car_hit(car) -> [ball, car, hit]
car_hit(ball, car) ==
    LET Hit(dx, dy, d, impact) ==
            IF d < Px(BALL_RADIUS + CAR_HALF) /\ 10 * d > PS
            THEN [ball |-> [ball EXCEPT !.vx = RDiv(dx * impact, d) + RDiv(car.vx * 3, 10),
                                        !.vy = RDiv(dy * impact, d) + RDiv(car.vy * 3, 10),
                                        !.x = HitPlace(car.x, dx, d),
                                        !.y = HitPlace(car.y, dy, d)],
                  car  |-> [car EXCEPT !.vx = car.vx - RDiv(dx * Px(HIT_RECOIL), d),
                                       !.vy = car.vy - RDiv(dy * Px(HIT_RECOIL), d)],
                  hit  |-> TRUE]
            ELSE [ball |-> ball, car |-> car, hit |-> FALSE]
    IN  Hit(ball.x - car.x, ball.y - car.y, v2_len(ball.x - car.x, ball.y - car.y),
            Max(RDiv(v2_len(car.vx, car.vy) * 8, 10), Px(HIT_FLOOR))
              + (IF car.boosting THEN Px(HIT_BOOST_BONUS) ELSE 0))

\* ----------------------------------------------------------- AI BRAIN ----
AI_AIM_NOISE == 15
AI_AIM_FLOOR == 1
AI_AIM_CEIL == 40
AI_AIM_DOWN == 3
AI_AIM_UP == 2
AI_REACTION == Ms(250)
AI_REACTION_CEIL == Ms(600)
AI_REACTION_DOWN == Ms(50)
AI_REACTION_UP == Ms(30)
AI_THINK_JITTER == Ms(50)
AI_ADAPT_BAND == 2

AIStates == {"idle", "chase_ball", "attack_goal", "defend_goal", "retreat", "boost_hunt"}

\* variant: the brain of AIDifficulty.HARD
AIBrainHard ==
    [state |-> "idle", think_timer |-> 0, goals_conceded |-> 0, goals_scored |-> 0,
     reaction_delay |-> Ms(100), aim_noise |-> 6]

\* AIBrain.__init__(AIDifficulty.MEDIUM)
AIBrainNew ==
    [state |-> "idle", think_timer |-> 0, goals_conceded |-> 0, goals_scored |-> 0,
     reaction_delay |-> AI_REACTION, aim_noise |-> AI_AIM_NOISE]

\* AIBrain.q_weights, in tenths
q_weights(st) ==
    IF st = "idle" THEN << <<"chase_ball", 7>>, <<"defend_goal", 3>> >>
    ELSE IF st = "chase_ball" THEN << <<"attack_goal", 6>>, <<"defend_goal", 3>>, <<"boost_hunt", 1>> >>
    ELSE IF st = "attack_goal" THEN << <<"chase_ball", 5>>, <<"defend_goal", 3>>, <<"retreat", 2>> >>
    ELSE IF st = "defend_goal" THEN << <<"chase_ball", 6>>, <<"attack_goal", 2>>, <<"boost_hunt", 2>> >>
    ELSE IF st = "retreat" THEN << <<"defend_goal", 5>>, <<"chase_ball", 4>>, <<"boost_hunt", 1>> >>
    ELSE << <<"chase_ball", 7>>, <<"attack_goal", 3>> >>

\* variant: adapting on any differential other than zero
adaptEager(brain) ==
    LET diff == brain.goals_scored - brain.goals_conceded
    IN  IF diff < 0
        THEN [brain EXCEPT !.aim_noise = Max(AI_AIM_FLOOR, brain.aim_noise - AI_AIM_DOWN),
                           !.reaction_delay = Max(0, brain.reaction_delay - AI_REACTION_DOWN)]
        ELSE IF diff > 0
        THEN [brain EXCEPT !.aim_noise = Min(AI_AIM_CEIL, brain.aim_noise + AI_AIM_UP),
                           !.reaction_delay = Min(AI_REACTION_CEIL, brain.reaction_delay + AI_REACTION_UP)]
        ELSE brain

\* variant: the ceilings are not applied
adaptNoCeiling(brain) ==
    LET diff == brain.goals_scored - brain.goals_conceded
    IN  IF diff < -AI_ADAPT_BAND
        THEN [brain EXCEPT !.aim_noise = Max(AI_AIM_FLOOR, brain.aim_noise - AI_AIM_DOWN),
                           !.reaction_delay = Max(0, brain.reaction_delay - AI_REACTION_DOWN)]
        ELSE IF diff > AI_ADAPT_BAND
        THEN [brain EXCEPT !.aim_noise = brain.aim_noise + AI_AIM_UP,
                           !.reaction_delay = brain.reaction_delay + AI_REACTION_UP]
        ELSE brain

\* AIBrain.adapt()
adapt(brain) ==
    LET diff == brain.goals_scored - brain.goals_conceded
    IN  IF diff < -AI_ADAPT_BAND
        THEN [brain EXCEPT !.aim_noise = Max(AI_AIM_FLOOR, brain.aim_noise - AI_AIM_DOWN),
                           !.reaction_delay = Max(0, brain.reaction_delay - AI_REACTION_DOWN)]
        ELSE IF diff > AI_ADAPT_BAND
        THEN [brain EXCEPT !.aim_noise = Min(AI_AIM_CEIL, brain.aim_noise + AI_AIM_UP),
                           !.reaction_delay = Min(AI_REACTION_CEIL, brain.reaction_delay + AI_REACTION_UP)]
        ELSE brain

\* AIBrain.predict_ball(ball, steps=20, dt=0.05): twenty steps of 0.05 s
predict_ball(ball) ==
    << ball.x + RDiv(ball.vx * 20 * 5, 100), ball.y + RDiv(ball.vy * 20 * 5, 100) >>

\* np.random.choice(candidates, p): u is a draw in 0 .. RngMod-1
RECURSIVE WeightedPick(_, _, _, _)
WeightedPick(table, i, u10, acc) ==
    IF i = Len(table) \/ u10 < acc + table[i][2] * RngMod THEN table[i][1]
    ELSE WeightedPick(table, i + 1, u10, acc + table[i][2] * RngMod)

\* distance in whole pixels between points given in position units
DistPx(ax, ay, bx, by) == v2_len(RDiv(ax - bx, PS), RDiv(ay - by, PS))

\* AIBrain.choose_state: the three override rules
BallDanger(ball) ==
    /\ 100 * ball.x > Px(SCREEN_W * 65)
    /\ Abs(ball.x - Px(SCREEN_W - GOAL_W \div 2)) < Px(250)
BoostHuntRule(car, lm, lid) ==
    /\ car.boost < 30 * TU
    /\ \E i \in DOMAIN lm.pads :
          /\ lm.pads[i].active
          /\ Dist(car.x, car.y, Px(GenPads(lid)[i][1]), Px(GenPads(lid)[i][2])) < Px(200)
AttackRule(car, ball) ==
    /\ Dist(car.x, car.y, ball.x, ball.y) < Px(150)
    /\ 2 * ball.x < Px(SCREEN_W)

\* variant: the boost rule is tried before the goal rule
choose_stateBoostFirst(brain, car, ball, lm, lid, u) ==
    IF BoostHuntRule(car, lm, lid) THEN "boost_hunt"
    ELSE IF BallDanger(ball) THEN "defend_goal"
    ELSE IF AttackRule(car, ball) THEN "attack_goal"
    ELSE WeightedPick(q_weights(brain.state), 1, 10 * u, 0)

\* AIBrain.choose_state(car, ball, level_map); u is the np.random draw
choose_state(brain, car, ball, lm, lid, u) ==
    IF BallDanger(ball) THEN "defend_goal"
    ELSE IF BoostHuntRule(car, lm, lid) THEN "boost_hunt"
    ELSE IF AttackRule(car, ball) THEN "attack_goal"
    ELSE WeightedPick(q_weights(brain.state), 1, 10 * u, 0)

\* AIBrain.get_controls: nearest active pad to the car, 0 when none
RECURSIVE NearestPad(_, _, _, _, _, _)
NearestPad(pads, lid, car, i, best, best_d) ==
    LET Nearer(d) ==
            IF pads[i].active /\ d < best_d
            THEN NearestPad(pads, lid, car, i + 1, i, d)
            ELSE NearestPad(pads, lid, car, i + 1, best, best_d)
    IN  IF i > Len(pads) THEN best
        ELSE Nearer(Dist(car.x, car.y, Px(GenPads(lid)[i][1]), Px(GenPads(lid)[i][2])))

\* AIBrain.get_controls: the target of a state, before jitter
AITarget(st, car, ball, lm, lid) ==
    LET ai_goal_x == Px(SCREEN_W - GOAL_W - 30)
        player_goal_x == Px(GOAL_W + 30)
        Target(pred, nearest) ==
            IF st = "defend_goal"
            THEN << lerp(pred[1], ai_goal_x, 6), lerp(pred[2], Px(SCREEN_H \div 2), 3) >>
            ELSE IF st = "attack_goal"
            THEN << pred[1] + RDiv((player_goal_x - pred[1]) * 3, 10), pred[2] >>
            ELSE IF st = "boost_hunt"
            THEN IF nearest # 0
                 THEN << Px(GenPads(lid)[nearest][1]), Px(GenPads(lid)[nearest][2]) >>
                 ELSE pred
            ELSE IF st = "retreat" THEN << ai_goal_x, Px(SCREEN_H \div 2) >>
            ELSE pred
    IN  Target(predict_ball(ball), NearestPad(lm.pads, lid, car, 1, 0, Px(9999)))

\* variant: the boost decision does not look at the state
UseBoostAnyState(car, dist_px, st) == car.boost > 40 * TU /\ dist_px > 150

\* AIBrain.get_controls: the boost decision
UseBoost(car, dist_px, st) ==
    car.boost > 40 * TU /\ dist_px > 150 /\ st \in {"attack_goal", "defend_goal"}

\* variant: the reaction delay is left out of the next think time
NextThinkJitterOnly(brain, r) == Uniform(r, 2, -AI_THINK_JITTER, AI_THINK_JITTER)

\* AIBrain.get_controls: "self.think_timer = self.reaction_delay +
\* random.uniform(-0.05, 0.05)"
NextThink(brain, r) ==
    brain.reaction_delay + Uniform(r, 2, -AI_THINK_JITTER, AI_THINK_JITTER)

\* AIBrain.get_controls(car, ball, level_map, dt) -> [brain, left, right,
\* forward, back, use_boost]; r is the generator state of this tick
get_controls(brain, car, ball, lm, lid, dt, r) ==
    LET Controls(st, timer, ad, dist) ==
            [brain   |-> [brain EXCEPT !.state = st, !.think_timer = timer],
             left    |-> (ad < -RDiv(8 * HalfTurn, 314)),
             right   |-> (ad > RDiv(8 * HalfTurn, 314)),
             forward |-> (dist > 40),
             back    |-> FALSE,
             use_boost |-> UseBoost(car, dist, st)]
        Steer(st, timer, dx, dy) ==
            Controls(st, timer,
                     ((Atan2(dy, dx) - car.angle + HalfTurn) % FullTurn) - HalfTurn,
                     v2_len(dx, dy))
        Aim(st, timer, tgt) ==
            Steer(st, timer,
                  RDiv(tgt[1] + Uniform(r, 3, -Px(brain.aim_noise), Px(brain.aim_noise)) - car.x, PS),
                  RDiv(tgt[2] + Uniform(r, 4, -Px(brain.aim_noise), Px(brain.aim_noise)) - car.y, PS))
        Act(st, timer) == Aim(st, timer, AITarget(st, car, ball, lm, lid))
        Think(timer) ==
            IF timer <= 0
            THEN Act(choose_state(brain, car, ball, lm, lid, Draw(r, 1)), NextThink(brain, r))
            ELSE Act(brain.state, timer)
    IN  Think(brain.think_timer - dt)

\* ---------------------------------------------------------- GOAL ZONE ----
\* GoalZone.__init__: the rectangle's left and top, in pixels
GoalX(side) == IF side = "left" THEN 0 ELSE SCREEN_W - GOAL_W
GoalY == (SCREEN_H - GOAL_H) \div 2

\* variant: a rectangle closed on all four edges
collidepointClosed(rx, ry, w, h, px, py) ==
    /\ rx <= px /\ px <= rx + w
    /\ ry <= py /\ py <= ry + h

\* pygame.Rect.collidepoint(px, py) for the rectangle (rx, ry, w, h): the
\* right and bottom edges are outside
collidepoint(rx, ry, w, h, px, py) ==
    /\ rx <= px /\ px < rx + w
    /\ ry <= py /\ py < ry + h

\* GoalZone.check_goal(ball): rect.collidepoint(int(ball.x), int(ball.y))
check_goal(side, ball) ==
    collidepoint(GoalX(side), GoalY, GOAL_W, GOAL_H, TDiv(ball.x, PS), TDiv(ball.y, PS))

\* --------------------------------------------------------------- GAME ----
COMBO_MAX == 8
FLASH_TIME == Ms(1200)
HAZARD_KICK == 120
PLAYER_START_X == 180

VARIABLES
    state,        \* Game.state: "select" | "playing" | "goal_flash" | "gameover"
    sel_level,    \* Game.sel_level
    level_id,     \* Game.level_id
    level_map,    \* Game.level_map: pads, asteroids, pulse rings, lightning
    player,       \* Game.player
    ai_car,       \* Game.ai_car
    ball,         \* Game.ball
    ai_brain,     \* Game.ai_brain
    time_left,    \* Game.time_left
    combo,        \* Game.combo
    winner,       \* Game.winner: "none" | "player" | "ai" | "draw"
    best_scores,  \* Game.best_scores
    flash_timer,  \* Game.flash_timer
    t,            \* Game.t, the time all updates so far have added up to
    keys,         \* pygame.key.get_pressed() as last polled by Game.update
    handled,      \* key events handle_events has taken since the last update
    twin          \* a second LevelMap instance (the runs of SpecLayout update it
                  \* beside level_map); Game never touches it

vars == << state, sel_level, level_id, level_map, player, ai_car, ball, ai_brain,
           time_left, combo, winner, best_scores, flash_timer, t, keys, handled, rng,
           twin >>

\* the part of the match a goal changes: the two scores, the combo, the brain
Board(p, a, c, br) == [pscore |-> p, ascore |-> a, combo |-> c, brain |-> br]

\* variants of the goal branches with a plausible slip: the wrong car is
\* credited; the combo is not capped
GoalLeftWrongCar(b) ==
    [b EXCEPT !.pscore = b.pscore + 1,
              !.combo = 1,
              !.brain = adapt([b.brain EXCEPT !.goals_scored = b.brain.goals_scored + 1])]
GoalRightUncapped(b) ==
    [b EXCEPT !.pscore = b.pscore + 1,
              !.combo = b.combo + 1,
              !.brain = adapt([b.brain EXCEPT !.goals_conceded = b.brain.goals_conceded + 1])]

\* variant: the player's goal is not counted by the brain
GoalRightUncounted(b) ==
    [b EXCEPT !.pscore = b.pscore + 1,
              !.combo = Min(b.combo + 1, COMBO_MAX),
              !.brain = adapt(b.brain)]

\* Game.update, "if self.goal_l.check_goal(self.ball)": the AI scores
GoalLeft(b) ==
    [b EXCEPT !.ascore = b.ascore + 1,
              !.combo = 1,
              !.brain = adapt([b.brain EXCEPT !.goals_scored = b.brain.goals_scored + 1])]

\* Game.update, "elif self.goal_r.check_goal(self.ball)": the player scores
GoalRight(b) ==
    [b EXCEPT !.pscore = b.pscore + 1,
              !.combo = Min(b.combo + 1, COMBO_MAX),
              !.brain = adapt([b.brain EXCEPT !.goals_conceded = b.brain.goals_conceded + 1])]

\* Game.update, the goal check on the ball after physics
GoalCheck(b, bl) ==
    IF check_goal("left", bl) THEN GoalLeft(b)
    ELSE IF check_goal("right", bl) THEN GoalRight(b)
    ELSE b
IsGoal(bl) == check_goal("left", bl) \/ check_goal("right", bl)

\* Game.update, "self.time_left -= dt"
CountdownHalf(tl, dt) == tl - dt \div 2
CountdownUp(tl, dt) == tl + dt
Countdown(tl, dt) == tl - dt

\* variant: level scores leave the winner undecided
WinnerOfLeadOnly(pscore, ascore) ==
    IF pscore > ascore THEN "player"
    ELSE IF ascore > pscore THEN "ai"
    ELSE "none"

\* Game.update, the winner once the timer has run out
WinnerOf(pscore, ascore) ==
    IF pscore > ascore THEN "player"
    ELSE IF ascore > pscore THEN "ai"
    ELSE "draw"

\* variant: the record is overwritten, not raised
BestAfterOverwrite(best, lid, total) == [best EXCEPT ![lid] = total]

\* Game.update, the best-score record once the timer has run out
BestAfter(best, lid, total) == [best EXCEPT ![lid] = Max(best[lid], total)]

\* Game.update, the hazard check: only the player car is perturbed
HazardKick(car, lm, lid, r) ==
    IF check_hazard_hit(lm, lid, car.x, car.y, CAR_HALF)
    THEN [car EXCEPT !.vx = car.vx + Uniform(r, 5, -Px(HAZARD_KICK), Px(HAZARD_KICK)),
                     !.vy = car.vy + Uniform(r, 6, -Px(HAZARD_KICK), Px(HAZARD_KICK))]
    ELSE car

\* variant: the AI car's collision is resolved before the player's
BallHitsAIFirst(b1, pcar, acar) ==
    LET Both(h2, h1) == [player |-> h1.car, ai_car |-> h2.car, ball |-> h1.ball]
        After(h2) == Both(h2, car_hit(h2.ball, pcar))
    IN  After(car_hit(b1, acar))

\* Game.update: "self.ball.car_hit(self.player, ...)", then
\* "self.ball.car_hit(self.ai_car, ...)", on the ball that Ball.update left
BallHits(b1, pcar, acar) ==
    LET Both(h1, h2) == [player |-> h1.car, ai_car |-> h2.car, ball |-> h2.ball]
        After(h1) == Both(h1, car_hit(h1.ball, acar))
    IN  After(car_hit(b1, pcar))

\* Game.update while playing, up to the two Ball.car_hit calls: the bodies
\* after input, movement and collisions.
\* k = <<left, right, forward, back, boost>> as polled from the keyboard.
Collided(k, dt) ==
    LET Result(ctl, lm2, h) ==
            [player |-> h.player,
             ai_car |-> h.ai_car,
             ball   |-> h.ball,
             brain  |-> ctl.brain,
             lm     |-> lm2]
        BallStep(u1, u2, ctl, lm2) ==
            Result(ctl, lm2, BallHits(BallUpdate(ball, dt, lm2, level_id), u1.car, u2.car))
        AIMoved(u1, u2, ctl, lm1) == BallStep(u1, u2, ctl, [lm1 EXCEPT !.pads = u2.pads])
        AIStep(u1, lm1, ctl) ==
            AIMoved(u1,
                    CarUpdate(apply_input(ai_car, ctl.left, ctl.right, ctl.forward, ctl.back,
                                          ctl.use_boost, dt), dt, lm1, level_id),
                    ctl, lm1)
        AIThink(u1, lm1) == AIStep(u1, lm1, get_controls(ai_brain, ai_car, ball, lm1, level_id, dt, rng))
        PlayerMoved(u1) == AIThink(u1, [level_map EXCEPT !.pads = u1.pads])
    IN  PlayerMoved(CarUpdate(apply_input(player, k[1], k[2], k[3], k[4], k[5], dt),
                              dt, level_map, level_id))

\* Game.update while playing, up to the goal check: the bodies after physics,
\* that is after the hazard check on what the collisions have left
Physics(k, dt) ==
    LET Kicked(c) == [c EXCEPT !.player = HazardKick(c.player, c.lm, level_id, rng)]
    IN  Kicked(Collided(k, dt))

\* Game._init_game(level_id)
InitGame(lid) ==
    /\ level_id' = lid
    /\ level_map' = LevelMapNew(lid)
    /\ player' = CarNew(PLAYER_START_X, SCREEN_H \div 2)
    /\ ai_car' = CarNew(SCREEN_W - PLAYER_START_X, SCREEN_H \div 2)
    /\ ball' = BallReset(rng, 1)
    /\ ai_brain' = AIBrainNew
    /\ time_left' = MATCH_TIME
    /\ combo' = 1
    /\ flash_timer' = 0
    /\ winner' = "none"
    /\ rng' = RngStep(rng)

\* variant: the car is moved but keeps its velocity
ResetCarMoving(car, x) == [car EXCEPT !.x = Px(x), !.y = Px(SCREEN_H \div 2), !.trail = 0]

\* Game.reset_positions()
ResetCar(car, x) == [car EXCEPT !.x = Px(x), !.y = Px(SCREEN_H \div 2), !.vx = 0, !.vy = 0, !.trail = 0]
reset_positions ==
    /\ player' = ResetCar(player, PLAYER_START_X)
    /\ ai_car' = ResetCar(ai_car, SCREEN_W - PLAYER_START_X)
    /\ ball' = BallReset(rng, 1)
    /\ rng' = RngStep(rng)

\* variant: the goal's phase change is applied after the game-over check
PhaseAfterGoalLast(tl, scored) ==
    IF scored THEN "goal_flash"
    ELSE IF tl <= 0 THEN "gameover"
    ELSE "playing"

\* Game.update, the phase a playing tick ends in: _goal_event sets goal_flash,
\* the timer block that runs after it sets gameover
PhaseAfter(tl, scored) ==
    IF tl <= 0 THEN "gameover"
    ELSE IF scored THEN "goal_flash"
    ELSE "playing"

\* variant: the match clock runs in every phase
PausedClockRuns(dt) ==
    /\ time_left' = Countdown(time_left, dt)
    /\ UNCHANGED << state, sel_level, level_id, level_map, player, ai_car, ball,
                    ai_brain, combo, winner, best_scores, keys, rng >>

\* Game.update, "if self.state != 'playing': return": what a tick outside
\* play leaves alone
Paused(dt) ==
    UNCHANGED << state, sel_level, level_id, level_map, player, ai_car, ball,
                 ai_brain, time_left, combo, winner, best_scores, keys, rng >>

\* Game.update(dt); the physics is computed once, and only while playing
Update(k, dt) ==
    \E ph \in {IF state = "playing" THEN Physics(k, dt) ELSE 0} :
    LET ft == IF flash_timer > 0 THEN flash_timer - dt ELSE flash_timer
        b0 == Board(player.score, ai_car.score, combo, ph.brain)
        b1 == GoalCheck(b0, ph.ball)
        tl == Countdown(time_left, dt)
    IN  /\ t' = t + dt
        /\ handled' = 0
        /\ UNCHANGED twin
        /\ IF state # "playing"
           THEN /\ flash_timer' = ft
                /\ Paused(dt)
           ELSE /\ keys' = k
                /\ player' = [ph.player EXCEPT !.score = b1.pscore]
                /\ ai_car' = [ph.ai_car EXCEPT !.score = b1.ascore]
                /\ ball' = ph.ball
                /\ ai_brain' = b1.brain
                /\ combo' = b1.combo
                /\ flash_timer' = IF IsGoal(ph.ball) THEN FLASH_TIME ELSE ft
                /\ time_left' = IF tl <= 0 THEN 0 ELSE tl
                /\ best_scores' = IF tl <= 0
                                  THEN BestAfter(best_scores, level_id, b1.pscore + b1.ascore)
                                  ELSE best_scores
                /\ winner' = IF tl <= 0 THEN WinnerOf(b1.pscore, b1.ascore) ELSE winner
                /\ state' = PhaseAfter(tl, IsGoal(ph.ball))
                /\ level_map' = LevelMapUpdate(ph.lm, level_id, dt, rng)
                /\ rng' = RngStep(rng)
                /\ UNCHANGED << sel_level, level_id >>

\* Game.run: one frame's update; the run is followed for MaxT of elapsed time
Slack == 0
MaxT == MATCH_TIME + Slack * DT_FRAME
Tick(k, dt) == t < MaxT /\ Update(k, dt)

\* ------------------------------------------------ Game.handle_events ----
\* the key presses that one frame's event queue holds
MaxEvents == 1
TakeEvent == handled < MaxEvents /\ handled' = handled + 1 /\ UNCHANGED twin

\* state "select": K_LEFT / K_a
SelectLeft ==
    /\ state = "select"
    /\ TakeEvent
    /\ sel_level' = (sel_level - 1) % NumLevels
    /\ UNCHANGED << state, level_id, level_map, player, ai_car, ball, ai_brain,
                    time_left, combo, winner, best_scores, flash_timer, t, keys, rng >>

\* state "select": K_RIGHT / K_d
SelectRight ==
    /\ state = "select"
    /\ TakeEvent
    /\ sel_level' = (sel_level + 1) % NumLevels
    /\ UNCHANGED << state, level_id, level_map, player, ai_car, ball, ai_brain,
                    time_left, combo, winner, best_scores, flash_timer, t, keys, rng >>

\* state "select": K_RETURN / K_SPACE
SelectConfirm ==
    /\ state = "select"
    /\ TakeEvent
    /\ InitGame(sel_level)
    /\ state' = "playing"
    /\ UNCHANGED << sel_level, best_scores, t, keys >>

\* states "playing" and "gameover": K_ESCAPE
KeyEscape ==
    /\ state \in {"playing", "gameover"}
    /\ TakeEvent
    /\ state' = "select"
    /\ UNCHANGED << sel_level, level_id, level_map, player, ai_car, ball, ai_brain,
                    time_left, combo, winner, best_scores, flash_timer, t, keys, rng >>

\* states "playing" and "gameover": K_n
KeyNext ==
    /\ state \in {"playing", "gameover"}
    /\ TakeEvent
    /\ sel_level' = (sel_level + 1) % NumLevels
    /\ InitGame((sel_level + 1) % NumLevels)
    /\ state' = "playing"
    /\ UNCHANGED << best_scores, t, keys >>

\* states "playing" and "gameover": K_r
KeyRestart ==
    /\ state \in {"playing", "gameover"}
    /\ TakeEvent
    /\ InitGame(level_id)
    /\ state' = "playing"
    /\ UNCHANGED << sel_level, best_scores, t, keys >>

\* state "goal_flash": K_SPACE
GoalFlashSpace ==
    /\ state = "goal_flash"
    /\ TakeEvent
    /\ state' = "playing"
    /\ reset_positions
    /\ UNCHANGED << sel_level, level_id, level_map, ai_brain, time_left, combo,
                    winner, best_scores, flash_timer, t, keys >>

\* ------------------------------------------------------ Game.__init__ ----
NoKeys == << FALSE, FALSE, FALSE, FALSE, FALSE >>
ZeroBest == [i \in LevelIds |-> 0]

\* Game.__init__: the level-select screen over a prepared match on level 0
Construct ==
    \E seed \in 0 .. NumSeeds - 1 :
        /\ state = "select"
        /\ sel_level = 0
        /\ best_scores = ZeroBest
        /\ t = 0
        /\ keys = NoKeys
        /\ handled = 0
        /\ level_id = 0
        /\ level_map = LevelMapNew(0)
        /\ twin = LevelMapNew(0)
        /\ player = CarNew(PLAYER_START_X, SCREEN_H \div 2)
        /\ ai_car = CarNew(SCREEN_W - PLAYER_START_X, SCREEN_H \div 2)
        /\ ball = BallReset(seed, 1)
        /\ ai_brain = AIBrainNew
        /\ time_left = MATCH_TIME
        /\ combo = 1
        /\ flash_timer = 0
        /\ winner = "none"
        /\ rng = RngStep(seed)

\* ------------------------------------------------- the idle match -------
\* Game.run at 60 frames a second with no key held, once level 0 is confirmed.
\* The only key pressed afterwards is SPACE on a goal, in the frame that
\* follows the goal or never.
IdleConfirm == sel_level = 0 /\ SelectConfirm
IdleTick == state # "select" /\ Tick(NoKeys, DT_FRAME)
PromptAck == flash_timer = FLASH_TIME /\ GoalFlashSpace
IdleNext == IdleConfirm \/ IdleTick \/ PromptAck
SpecMatch == Construct /\ [][IdleNext]_vars

\* ------------------------------------------- matches in their last frames --
\* The main specification follows matches through their closing frames: it
\* starts from matches in play that are ClockLeft frames from the final
\* whistle (SpecMatch follows a match from Game.__init__ on).
MaxGoals == 8
ClockLeft == 2

\* the score boards that at most n goals lead to
RECURSIVE BoardsUpTo(_)
BoardsUpTo(n) ==
    IF n = 0 THEN {Board(0, 0, 1, AIBrainNew)}
    ELSE LET prev == BoardsUpTo(n - 1)
         IN  prev \cup {GoalLeft(b) : b \in prev} \cup {GoalRight(b) : b \in prev}
Boards == BoardsUpTo(MaxGoals)

\* the keys held during a frame: <<left, right, forward, back, boost>>
KeySets ==
    { NoKeys,
      << FALSE, FALSE, TRUE, FALSE, TRUE >>,
      << TRUE, FALSE, FALSE, TRUE, TRUE >> }

\* Game.run: dt = min(clock.tick(FPS) / 1000, 0.05)
Dts == {DT_FRAME, DT_CAP}

\* the records of earlier matches
PriorBest == [ZeroBest EXCEPT ![0] = 3, ![1] = 2]

\* boost levels a car has in mid-match, around the boosting threshold, the
\* refill step and the cap
Boosts ==
    { 7 * (TU \div 2), BOOST_MIN_PTS * TU, BOOST_MIN_PTS * TU + 1, 30 * TU,
      (BOOST_MAX_PTS - PAD_REFILL) * TU, (BOOST_MAX_PTS - PAD_REFILL) * TU + 1, BOOST_MAX }

\* a car in mid-match: position in pixels, velocity in pixels per second
CarAt(x, y, vx, vy, angle, boost) ==
    [x |-> Px(x), y |-> Px(y), vx |-> Px(vx), vy |-> Px(vy), angle |-> angle,
     boost |-> boost, score |-> 0, boosting |-> FALSE, trail |-> CAR_TRAIL_MAX]

\* a ball in mid-match: position in half pixels, velocity in pixels per second
BallAt(x2, y2, vx, vy) ==
    [x |-> x2 * (PS \div 2), y |-> y2 * (PS \div 2), vx |-> Px(vx), vy |-> Px(vy),
     trail |-> BALL_TRAIL_MAX]

\* balls about to cross or touch the edges of a goal mouth
GoalMouthBalls ==
    { BallAt(48, 720, -90, 0),      \* onto the right edge of the left goal
      BallAt(52, 720, -300, 0),     \* into the left goal
      BallAt(36, 874, 0, -90),      \* onto the bottom edge of the left goal
      BallAt(36, 567, 0, 90),       \* onto the top edge of the left goal
      BallAt(48, 567, -90, 90),     \* onto the top right corner of the left goal
      BallAt(2513, 720, 90, 0),     \* onto the left edge of the right goal
      BallAt(2510, 720, 300, 0),    \* into the right goal
      BallAt(2520, 874, 0, -90),    \* onto the bottom edge of the right goal
      BallAt(1200, 700, 60, -40) }  \* in midfield
ScoringBalls == {BallAt(52, 720, -300, 0), BallAt(2510, 720, 300, 0)}

\* a match on level lid in play, left frames before the end, the arena as lm
\* (InPlay: the arena as built)
InPlayOn(lm, lid, b, pl, ai, bl, left, best, seed) ==
    /\ state = "playing"
    /\ sel_level = lid
    /\ level_id = lid
    /\ level_map = lm
    /\ twin = LevelMapNew(lid)
    /\ player = [pl EXCEPT !.score = b.pscore]
    /\ ai_car = [ai EXCEPT !.score = b.ascore]
    /\ ball = bl
    /\ ai_brain = b.brain
    /\ combo = b.combo
    /\ time_left = left * DT_FRAME
    /\ winner = "none"
    /\ best_scores = best
    /\ flash_timer = 0
    /\ t = MATCH_TIME - left * DT_FRAME
    /\ keys = NoKeys
    /\ handled = 0
    /\ rng = seed
InPlay(lid, b, pl, ai, bl, left, best, seed) ==
    InPlayOn(LevelMapNew(lid), lid, b, pl, ai, bl, left, best, seed)

KickoffPlayer == CarNew(PLAYER_START_X, SCREEN_H \div 2)
KickoffAI == CarNew(SCREEN_W - PLAYER_START_X, SCREEN_H \div 2)

\* any score board, the ball on its way into a goal
GoalMouth ==
    \E b \in Boards, bl \in ScoringBalls :
        InPlay(0, b, KickoffPlayer, KickoffAI, bl, ClockLeft, PriorBest, 0)

\* the ball at the edges of the goal mouths
GoalEdge ==
    \E bl \in GoalMouthBalls, seed \in 0 .. NumSeeds - 1 :
        InPlay(0, Board(0, 0, 1, AIBrainNew), KickoffPlayer, KickoffAI, bl, ClockLeft, ZeroBest, seed)

\* the player parked on the centre pad as it comes back, at any boost level
PadStop ==
    \E bo \in Boosts, lid \in LevelIds :
        InPlay(lid, Board(0, 0, 1, AIBrainNew),
               CarAt(GenPads(lid)[1][1], GenPads(lid)[1][2], 0, 0, 0, bo), KickoffAI,
               BallAt(1200, 700, 60, -40), ClockLeft, ZeroBest, 0)

\* the player driving at the ball that lies by the left wall
WallContact ==
    \E bo \in Boosts :
        InPlay(0, Board(0, 0, 1, AIBrainNew),
               CarAt(60, 200, -MAX_SPEED, 0, HalfTurn, bo), KickoffAI,
               BallAt(40, 400, 0, 0), ClockLeft, ZeroBest, 0)

\* the player and the ball inside a nebula, at rest or drifting: on level 1
\* the nebula lies within reach of a repulsor, on level 4 it lies alone
NebulaSpots ==
    { [lid |-> 1, px |-> 800, py |-> 360, bx2 |-> 1368, by2 |-> 588],
      [lid |-> 4, px |-> 850, py |-> 330, bx2 |-> 1880, by2 |-> 760] }
NebulaDrifts == { << 0, 0 >>, << 200, -100 >> }
NebulaDrift ==
    \E sp \in NebulaSpots, v \in NebulaDrifts :
        InPlay(sp.lid, Board(0, 0, 1, AIBrainNew),
               CarAt(sp.px, sp.py, v[1], v[2], 0, BOOST_MAX), KickoffAI,
               BallAt(sp.bx2, sp.by2, v[2], v[1]), ClockLeft, ZeroBest, 0)

\* the AI far ahead: the board after n goals of the AI in a row, the ball on
\* its way into a goal
MaxRun == 16
RECURSIVE AIRun(_)
AIRun(n) == IF n = 0 THEN Board(0, 0, 1, AIBrainNew) ELSE GoalLeft(AIRun(n - 1))
LongLead ==
    \E n \in 0 .. MaxRun, bl \in ScoringBalls :
        InPlay(0, AIRun(n), KickoffPlayer, KickoffAI, bl, ClockLeft, ZeroBest, 0)

\* level 4 at the start of a ring cycle: each car either at its kickoff spot
\* or at rest on the centre of a pulse ring, inside the ring's band
RingSpots(start_x) ==
    { << start_x, SCREEN_H \div 2 >> } \cup
    { << GenPulseRings(4)[i].cx, GenPulseRings(4)[i].cy >> : i \in {2, 3} }
HazardContact ==
    \E ps \in RingSpots(PLAYER_START_X), as \in RingSpots(SCREEN_W - PLAYER_START_X) :
        /\ ps # as
        /\ InPlay(4, Board(0, 0, 1, AIBrainNew),
                  CarAt(ps[1], ps[2], 0, 0, 0, BOOST_MAX),
                  CarAt(as[1], as[2], 0, 0, 0, BOOST_MAX),
                  BallAt(1280, 720, 60, -40), ClockLeft, ZeroBest, 0)

\* both cars against the ball in midfield, one on each side of it
Scrum ==
    \E bo \in {30 * TU, BOOST_MAX} :
        InPlay(0, Board(0, 0, 1, AIBrainNew),
               CarAt(620, 360, 0, 0, 0, bo), CarAt(665, 360, 0, 0, HalfTurn, BOOST_MAX),
               BallAt(1280, 720, 0, 0), ClockLeft, ZeroBest, 0)

\* level 0, pads 1 and 3 taken a little under five seconds ago: the player
\* parked on pad 1, the AI car on pad 3, neither meter full
PadWait ==
    \E cd \in {DT_FRAME, 2 * DT_FRAME, DT_CAP, DT_CAP + DT_FRAME} :
        InPlayOn([LevelMapNew(0) EXCEPT !.pads[1] = [active |-> FALSE, cooldown |-> cd],
                                        !.pads[3] = [active |-> FALSE, cooldown |-> cd]],
                 0, Board(0, 0, 1, AIBrainNew),
                 CarAt(GenPads(0)[1][1], GenPads(0)[1][2], 0, 0, 0, 30 * TU),
                 CarAt(GenPads(0)[3][1], GenPads(0)[3][2], 0, 0, HalfTurn, 60 * TU),
                 BallAt(1200, 700, 60, -40), ClockLeft, ZeroBest, 0)

\* the player at the top speed of a boosting car (520 less one tick's drag),
\* heading for the ball that lies at rest just ahead of it
Charge ==
    \E bo \in {30 * TU, 60 * TU} :
        InPlay(0, Board(0, 0, 1, AIBrainNew),
               CarAt(590, 200, BOOST_SPEED - 1, 0, 0, bo), KickoffAI,
               BallAt(1260, 400, 0, 0), ClockLeft, ZeroBest, 0)

Init ==
    \/ GoalMouth \/ GoalEdge \/ PadStop \/ WallContact \/ NebulaDrift \/ LongLead
    \/ HazardContact \/ Scrum \/ PadWait \/ Charge

\* Game.run: handle_events, then update
KeyEvent ==
    \/ SelectLeft
    \/ SelectRight
    \/ SelectConfirm
    \/ KeyEscape
    \/ KeyNext
    \/ KeyRestart
    \/ GoalFlashSpace
Frame == \E k \in KeySets, dt \in Dts : Tick(k, dt)
Next == KeyEvent \/ Frame
Spec == Init /\ [][Next]_vars

\* ------------------------------------------- two layouts side by side ----
\* LevelMap used on its own.  LevelMap(level_id) is built for an id taken from
\* LayoutIds; the process draws other random numbers; a second LevelMap is
\* built for the same id; LevelMap.update then advances both, the first
\* instance before the second, with the same dt in every round.  An id for
\* which LEVELS[level_id] raises IndexError yields no instance and no state.
BelowIds == 6
AboveIds == 1
LayoutIds == (-BelowIds) .. (NumLevels - 1 + AboveIds)
MaxLayoutFrames == 48
MaxLayoutT == MaxLayoutFrames * DT_CAP
\* the frame lengths of a run: 1/60 s or 0.05 s while the first MixFrames
\* sixtieths last, 0.05 s from then on
MixFrames == 3
LayoutDts == IF t < MixFrames * DT_FRAME THEN Dts ELSE {DT_CAP}

\* no second instance yet
NoLayout == [pads |-> << >>, asteroids |-> << >>, rings |-> << >>, lightning |-> << >>]
IsBuilt(lm) == Len(lm.pads) > 0
SeedStates == { RngStep(seed) : seed \in 0 .. NumSeeds - 1 }

Layout ==
    \E lid \in LayoutIds, seed \in 0 .. NumSeeds - 1 :
        /\ ~IndexError(lid)
        /\ rng = RngStep(seed)
        /\ level_id = lid
        /\ level_map = LevelMapNew(lid)
        /\ twin = NoLayout
        /\ t = 0
        /\ state = "select"
        /\ sel_level = 0
        /\ best_scores = ZeroBest
        /\ keys = NoKeys
        /\ handled = 0
        /\ player = KickoffPlayer
        /\ ai_car = KickoffAI
        /\ ball = BallReset(seed, 1)
        /\ ai_brain = AIBrainNew
        /\ time_left = MATCH_TIME
        /\ combo = 1
        /\ flash_timer = 0
        /\ winner = "none"

\* random draws made elsewhere in the process between the two constructions
OtherDraws ==
    /\ ~IsBuilt(twin)
    /\ rng \in SeedStates
    /\ rng' = RngStep(rng)
    /\ UNCHANGED << state, sel_level, level_id, level_map, player, ai_car, ball, ai_brain,
                    time_left, combo, winner, best_scores, flash_timer, t, keys, handled, twin >>

\* the second LevelMap(level_id)
BuildTwin ==
    /\ ~IsBuilt(twin)
    /\ twin' = LevelMapNew(level_id)
    /\ UNCHANGED << state, sel_level, level_id, level_map, player, ai_car, ball, ai_brain,
                    time_left, combo, winner, best_scores, flash_timer, t, keys, handled, rng >>

\* level_map.update(dt), then twin.update(dt)
LayoutTick(dt) ==
    /\ IsBuilt(twin)
    /\ t < MaxLayoutT
    /\ level_map' = LevelMapUpdate(level_map, level_id, dt, rng)
    /\ twin' = LevelMapUpdate(twin, level_id, dt, RngStep(rng))
    /\ rng' = RngStep(RngStep(rng))
    /\ t' = t + dt
    /\ UNCHANGED << state, sel_level, level_id, player, ai_car, ball, ai_brain,
                    time_left, combo, winner, best_scores, flash_timer, keys, handled >>

LayoutFrame == \E dt \in LayoutDts : LayoutTick(dt)
LayoutNext == OtherDraws \/ BuildTwin \/ LayoutFrame
SpecLayout == Layout /\ [][LayoutNext]_vars

\* ------------------------------------------- the brain's decision alone ----
\* AIBrain.get_controls called tick after tick on a brain, a car, a ball and
\* a layout that stay as they are: the arguments of choose_state are drawn
\* around the thresholds of its three rules, on level 2 (pads at (640,360),
\* (312,145), (969,538), (1127,204), (706,116)).

MaxThinkTicks == 10

\* cars: 138 from pad 3; exactly 200 from pad 3; far from every pad;
\* 155 from pad 2; 80 from pad 1
ThinkCarSpots == { <<969, 400>>, <<969, 338>>, <<400, 500>>, <<312, 300>>, <<560, 360>> }
ThinkBoosts == { 20 * TU, 30 * TU - 1, 30 * TU, BOOST_MAX }
\* balls (half pixels): in front of the AI's goal; exactly 250 from x = 1269, the goal
\* line; in the player's half; just left of the half-way line; on it;
\* exactly 150 from the car at (312,300)
ThinkBalls ==
    { BallAt(2200, 720, 0, 0), BallAt(2038, 720, 0, 0), BallAt(800, 720, 60, -40),
      BallAt(1279, 720, 0, 0), BallAt(1280, 720, 0, 0), BallAt(924, 600, 0, 0) }
\* pads taken a moment ago: none, pad 3 only, all of them
ThinkPadsOut == { {}, {3}, 1 .. 5 }

PadsOut(lm, out) ==
    [lm EXCEPT !.pads = [i \in DOMAIN lm.pads |->
                            IF i \in out THEN [active |-> FALSE, cooldown |-> PAD_COOLDOWN]
                            ELSE lm.pads[i]]]

ThinkInputs ==
    \E lid \in {2}, c \in ThinkCarSpots, bo \in ThinkBoosts, bl \in ThinkBalls,
       st \in AIStates, out \in ThinkPadsOut, seed \in 0 .. NumSeeds - 1 :
        /\ state = "playing"
        /\ sel_level = lid
        /\ level_id = lid
        /\ level_map = PadsOut(LevelMapNew(lid), out)
        /\ twin = NoLayout
        /\ player = KickoffPlayer
        /\ ai_car = CarAt(c[1], c[2], 0, 0, HalfTurn, bo)
        /\ ball = bl
        /\ ai_brain = [AIBrainNew EXCEPT !.state = st]
        /\ combo = 1
        /\ time_left = MATCH_TIME
        /\ winner = "none"
        /\ best_scores = ZeroBest
        /\ flash_timer = 0
        /\ t = 0
        /\ keys = NoKeys
        /\ handled = 0
        /\ rng = RngStep(seed)

\* one call of get_controls; the generator moves on as it does in a frame
ThinkTick(dt) ==
    /\ t < MaxThinkTicks * DT_CAP
    /\ ai_brain' = get_controls(ai_brain, ai_car, ball, level_map, level_id, dt, rng).brain
    /\ rng' = RngStep(rng)
    /\ t' = t + dt
    /\ UNCHANGED << state, sel_level, level_id, level_map, player, ai_car, ball,
                    time_left, combo, winner, best_scores, flash_timer, keys,
                    handled, twin >>

ThinkFrame == \E dt \in LayoutDts : ThinkTick(dt)

SpecThink == ThinkInputs /\ [][ThinkFrame]_vars

\* ------------------------------------------------------------- claims ----
MatchOver == state = "gameover" /\ time_left = 0 /\ winner \in {"player", "ai", "draw"}

PlayingTick == state = "playing" /\ t' > t
TickLength == t' - t
AIGoal == ai_car'.score = ai_car.score + 1 /\ player'.score = player.score
PlayerGoal == player'.score = player.score + 1 /\ ai_car'.score = ai_car.score
NoGoal == player'.score = player.score /\ ai_car'.score = ai_car.score
JustScored == state = "goal_flash" /\ flash_timer = FLASH_TIME

\* C2: on a playing tick that leaves the ball inside a goal rectangle without
\* the timer expiring, exactly one score goes up by exactly 1 (the AI's for
\* the left goal, the player's for the right goal), the other is unchanged and
\* the phase becomes goal_flash; with the ball in neither goal no score changes.
C2_GoalScoresOnce ==
    [][PlayingTick =>
          /\ (check_goal("left", ball') /\ time_left' > 0) => (AIGoal /\ state' = "goal_flash")
          /\ (check_goal("right", ball') /\ time_left' > 0) => (PlayerGoal /\ state' = "goal_flash")
          /\ (~check_goal("left", ball') /\ ~check_goal("right", ball')) => NoGoal]_vars

\* goals of both cars on the board, the latest one just scored
C2_Witness == JustScored /\ player.score > 0 /\ ai_car.score > 0 /\ time_left > 0

\* C3: from goal_flash the phase can only become playing, only by the SPACE
\* key event (no update step), and right after it the player is at (180, 360),
\* the AI car at (1100, 360), both at rest, the ball at (640, 360) and the
\* three trails are empty.
C3_AcknowledgeResets ==
    [][state = "goal_flash" =>
          /\ state' \in {"goal_flash", "playing"}
          /\ state' = "playing" =>
                /\ t' = t /\ handled' = handled + 1
                /\ player'.x = Px(180) /\ player'.y = Px(360)
                /\ ai_car'.x = Px(1100) /\ ai_car'.y = Px(360)
                /\ player'.vx = 0 /\ player'.vy = 0 /\ ai_car'.vx = 0 /\ ai_car'.vy = 0
                /\ ball'.x = Px(640) /\ ball'.y = Px(360)
                /\ player'.trail = 0 /\ ai_car'.trail = 0 /\ ball'.trail = 0]_vars

\* play resumed by SPACE after a goal, the bodies back at kickoff
C3_Witness ==
    /\ state = "playing" /\ handled = 1 /\ time_left < MATCH_TIME
    /\ player.score + ai_car.score > 0
    /\ ball.x = Px(640) /\ ball.trail = 0 /\ player.x = Px(180) /\ ai_car.trail = 0

\* C4: a playing tick that takes the timer to zero ends in gameover with
\* winner "player" iff the player leads, "ai" iff the AI leads and "draw" iff
\* the scores are level, and with best_scores[level_id] the larger of its old
\* value and the sum of the two scores, the other levels' records unchanged.
C4_TimerEndsMatch ==
    [][(PlayingTick /\ time_left - TickLength <= 0) =>
          /\ state' = "gameover" /\ time_left' = 0
          /\ winner' = "player" <=> player'.score > ai_car'.score
          /\ winner' = "ai" <=> ai_car'.score > player'.score
          /\ winner' = "draw" <=> player'.score = ai_car'.score
          /\ best_scores'[level_id] = Max(best_scores[level_id], player'.score + ai_car'.score)
          /\ \A i \in LevelIds \ {level_id} : best_scores'[i] = best_scores[i]]_vars

\* a match lost by the player whose total stayed under the level's record
C4_Witness ==
    /\ state = "gameover" /\ winner = "ai"
    /\ player.score + ai_car.score < best_scores[level_id]
    /\ best_scores[1] = 2

\* C5: the combo counter is always in 1 .. 8; an AI goal sets it to 1 and a
\* player goal sets it to min(combo + 1, 8), however long the run of goals.
C5_ComboRange ==
    /\ [](combo \in 1 .. 8)
    /\ [][PlayingTick =>
             /\ AIGoal => combo' = 1
             /\ PlayerGoal => combo' = Min(combo + 1, 8)
             /\ NoGoal => combo' = combo]_vars

\* a ninth player goal in a row, the combo held at 8
C5_Witness == JustScored /\ combo = 8 /\ player.score = 9 /\ ai_car.score = 0

\* C6: both boost meters stay within [0, 100] (frames of at most 0.05 s); a
\* meter goes down in a tick only if apply_input set boosting in that tick, and
\* boosting is set only if the boost key and forward were held and the meter
\* was above 5 when apply_input was called.
C6_BoostMeter ==
    /\ [](player.boost \in 0 .. 100 * TU /\ ai_car.boost \in 0 .. 100 * TU)
    /\ [][PlayingTick =>
             /\ player'.boost < player.boost => player'.boosting
             /\ player'.boosting => (keys'[5] /\ keys'[3] /\ player.boost > 5 * TU)
             /\ ai_car'.boost < ai_car.boost => ai_car'.boosting
             /\ ai_car'.boosting => ai_car.boost > 5 * TU]_vars

\* a boost started just above 5 that took the meter below 5
C6_Witness == player.boosting /\ player.boost < 5 * TU /\ keys[5] /\ keys[3]

\* C7: the call of adapt() that follows a goal leaves aim_noise and
\* reaction_delay unchanged when goals_scored - goals_conceded is in [-2, 2];
\* below -2 neither goes up and each goes down unless at its floor (1, 0 s);
\* above 2 neither goes down and each goes up unless at its ceiling (40, 0.6 s).
C7_AdaptDirection ==
    [][(PlayingTick /\ ~NoGoal) =>
          LET d == ai_brain'.goals_scored - ai_brain'.goals_conceded
              aim == ai_brain.aim_noise
              rd == ai_brain.reaction_delay
          IN  /\ d \in -2 .. 2 =>
                    (ai_brain'.aim_noise = aim /\ ai_brain'.reaction_delay = rd)
              /\ d < -2 =>
                    /\ ai_brain'.aim_noise <= aim /\ (ai_brain'.aim_noise < aim \/ aim = 1)
                    /\ ai_brain'.reaction_delay <= rd /\ (ai_brain'.reaction_delay < rd \/ rd = 0)
              /\ d > 2 =>
                    /\ ai_brain'.aim_noise >= aim /\ (ai_brain'.aim_noise > aim \/ aim = 40)
                    /\ ai_brain'.reaction_delay >= rd
                    /\ (ai_brain'.reaction_delay > rd \/ rd = Ms(600))]_vars

\* a goal conceded far behind, with both values already at their floors
C7_Witness ==
    /\ JustScored /\ ai_brain.goals_scored - ai_brain.goals_conceded < -2
    /\ ai_brain.aim_noise = 1 /\ ai_brain.reaction_delay = 0 /\ ai_brain.goals_conceded = 9

\* the player car as Car.update receives it and as Car.update leaves it
C8_Entering == apply_input(player, keys'[1], keys'[2], keys'[3], keys'[4], keys'[5], TickLength)
C8_Leaving == CarUpdate(C8_Entering, TickLength, level_map, level_id)
C8_OnPad(i) ==
    /\ level_map.pads[i].active
    /\ C8_Leaving.car.x = Px(GenPads(level_id)[i][1])
    /\ C8_Leaving.car.y = Px(GenPads(level_id)[i][2])
C8_PadTaken(i) == C8_Leaving.pads[i] = [active |-> FALSE, cooldown |-> Ms(5000)]

C9_Left(side) == IF side = "left" THEN 0 ELSE SCREEN_W - GOAL_W
C9_Top == (SCREEN_H - GOAL_H) \div 2
C9_X(bl) == TDiv(bl.x, PS)
C9_Y(bl) == TDiv(bl.y, PS)
C9_OnEdge(side, bl) ==
    /\ C9_Left(side) <= C9_X(bl) /\ C9_X(bl) <= C9_Left(side) + GOAL_W
    /\ C9_Top <= C9_Y(bl) /\ C9_Y(bl) <= C9_Top + GOAL_H
    /\ \/ C9_X(bl) \in {C9_Left(side), C9_Left(side) + GOAL_W}
       \/ C9_Y(bl) \in {C9_Top, C9_Top + GOAL_H}
C9_Within(side, bl) ==
    /\ C9_Left(side) <= C9_X(bl) /\ C9_X(bl) < C9_Left(side) + GOAL_W
    /\ C9_Top <= C9_Y(bl) /\ C9_Y(bl) < C9_Top + GOAL_H

\* C9 as stated: a playing tick that leaves the truncated ball position on
\* any edge or corner of a goal rectangle registers a goal.
C9_EdgesInclusive ==
    [][PlayingTick =>
          \A side \in {"left", "right"} : C9_OnEdge(side, ball') => ~NoGoal]_vars

\* C9 amended: a playing tick registers a goal exactly when the truncated ball
\* position has goal.x <= x < goal.x + GOAL_W and goal.y <= y < goal.y + GOAL_H:
\* points on the left and top edges register, points on the right and bottom
\* edges do not.
C9_EdgesHalfOpen ==
    [][PlayingTick =>
          /\ ~NoGoal <=> (C9_Within("left", ball') \/ C9_Within("right", ball'))
          /\ \A side \in {"left", "right"} :
                 C9_OnEdge(side, ball') =>
                     (~NoGoal <=> (/\ C9_X(ball') < C9_Left(side) + GOAL_W
                                   /\ C9_Y(ball') < C9_Top + GOAL_H))]_vars

\* a goal registered with the ball on the top edge of the left goal
C9_Witness == JustScored /\ C9_Y(ball) = C9_Top /\ C9_X(ball) < GOAL_W /\ ai_car.score = 1

\* C10 as stated: every playing tick ends with both cars in
\* [30, 1250] x [30, 690] and the ball in [16, 1264] x [16, 704].
C10_CarInside(car) ==
    /\ Px(30) <= car.x /\ car.x <= Px(1250)
    /\ Px(30) <= car.y /\ car.y <= Px(690)
C10_BallInside(bl) ==
    /\ Px(16) <= bl.x /\ bl.x <= Px(1264)
    /\ Px(16) <= bl.y /\ bl.y <= Px(704)
C10_BodiesInside ==
    [][PlayingTick =>
          (C10_CarInside(player') /\ C10_CarInside(ai_car') /\ C10_BallInside(ball'))]_vars

\* the bodies apply_gravity is called for: position, velocity, 10 * mass
C11_Bodies ==
    { << player.x, player.y, player.vx, player.vy, 10 >>,
      << ai_car.x, ai_car.y, ai_car.vx, ai_car.vy, 10 >>,
      << ball.x, ball.y, ball.vx, ball.vy, 7 >> }
C11_Speed2(v) == v[1] * v[1] + v[2] * v[2]
C11_Inside(a, b) == Max(PS, v2_len(Px(a.x) - b[1], Px(a.y) - b[2])) < Px(a.radius)
C11_Nebulas == { i \in DOMAIN GenAnomalies(level_id) : GenAnomalies(level_id)[i].kind = "nebula" }
C11_InNebula(b) == \E i \in C11_Nebulas : C11_Inside(GenAnomalies(level_id)[i], b)
C11_After(b, dt) == apply_gravity(level_id, b[1], b[2], b[3], b[4], b[5], dt)
\* no black hole or repulsor has the body within three radii, no corridor
\* holds it
C11_NebulaOnly(b) ==
    /\ \A i \in DOMAIN GenAnomalies(level_id) \ C11_Nebulas :
          LET a == GenAnomalies(level_id)[i]
          IN  Max(PS, v2_len(Px(a.x) - b[1], Px(a.y) - b[2])) >= Px(a.radius * 3)
    /\ \A j \in DOMAIN GenCorridors(level_id) :
          LET gc == GenCorridors(level_id)[j]
          IN  ~(2 * Abs(b[1] - Px(gc.x)) < Px(gc.width) /\ 2 * Abs(b[2] - Px(gc.y)) < Px(gc.height))

\* C11 as stated: for a body inside a nebula's radius, one apply_gravity call
\* (dt up to 0.05) returns a velocity no larger in magnitude than the one
\* passed in.
C11_NebulaNeverSpeedsUp ==
    \A b \in C11_Bodies, dt \in Dts :
        C11_InNebula(b) => C11_Speed2(C11_After(b, dt)) <= C11_Speed2(<< b[3], b[4] >>)

\* C11 amended: the nebula's own step never raises the magnitude, and the
\* whole call does not raise it when no black hole or repulsor has the body
\* within three radii and no gravity corridor holds it.
C11_NebulaDampsAlone ==
    \A b \in C11_Bodies, dt \in Dts :
        /\ \A i \in C11_Nebulas :
              C11_Speed2(AnomalyForce(GenAnomalies(level_id)[i], b[1], b[2], << b[3], b[4] >>, b[5], dt))
                 <= C11_Speed2(<< b[3], b[4] >>)
        /\ (C11_InNebula(b) /\ C11_NebulaOnly(b)) =>
              C11_Speed2(C11_After(b, dt)) <= C11_Speed2(<< b[3], b[4] >>)

\* the player drifting in the lone nebula of level 4, slowed by the call
C11_Witness ==
    LET b == << player.x, player.y, player.vx, player.vy, 10 >>
    IN  /\ level_id = 4 /\ C11_InNebula(b) /\ C11_NebulaOnly(b)
        /\ C11_Speed2(C11_After(b, DT_CAP)) < C11_Speed2(<< b[3], b[4] >>)

C13_TwinsStayAlike ==
    (level_id \in LevelIds /\ IsBuilt(twin)) => twin = level_map

\* C15 as stated: no layout exists for a level id outside [0, 5): the
\* construction is rejected with an error.
C15_InvalidIdRejected ==
    (level_id < 0 \/ level_id >= 5) => ~IsBuilt(level_map)

\* C19: after every LevelMap.update each pulse ring's radius is at least its
\* reset value 10 and at most its max_radius, in both instances; a ring whose
\* growth passes max_radius is back at 10 when that update returns.
C19_RingInRange ==
    \A lm \in {level_map, twin} : \A i \in DOMAIN lm.rings :
        /\ Px(10) <= lm.rings[i]
        /\ lm.rings[i] <= Px(GenPulseRings(level_id)[i].max_radius)

\* a ring of level 4 that has grown to its limit and been reset
C19_Witness ==
    /\ level_id = 4 /\ t > 0
    /\ \E i \in DOMAIN level_map.rings : level_map.rings[i] = Px(10)

\* a step that starts a new match: a key event that ran _init_game
C14_NewMatch ==
    /\ handled' = handled + 1 /\ state' = "playing" /\ time_left' = 120 * TU
    /\ player'.score = 0 /\ ai_car'.score = 0

\* C14: 0 <= time_left <= 120 in every state, time_left is exactly 0 whenever
\* the phase is gameover, and time_left never increases within a match (it
\* rises only when a new match starts).
C14_ClockBounded ==
    /\ [](/\ 0 <= time_left /\ time_left <= 120 * TU
          /\ state = "gameover" => time_left = 0)
    /\ [][time_left' > time_left => C14_NewMatch]_vars

\* a match ended by a 0.05 s frame that carried the clock past zero
C14_Witness == state = "gameover" /\ time_left = 0 /\ t > MATCH_TIME

\* a key event that ran _init_game, from select, playing or gameover
C16_InitGame == state # "goal_flash" /\ handled' = handled + 1 /\ state' = "playing"

\* C16: the goal reset (goal_flash -> playing) leaves the brain's aim_noise,
\* reaction_delay, goals_scored and goals_conceded, both scores, combo and
\* time_left unchanged; _init_game, from any phase, leaves the brain with
\* aim_noise 15, reaction_delay 0.25, both goal counters 0 and state idle.
C16_BrainAcrossResets ==
    [][/\ (state = "goal_flash" /\ state' = "playing") =>
             /\ ai_brain'.aim_noise = ai_brain.aim_noise
             /\ ai_brain'.reaction_delay = ai_brain.reaction_delay
             /\ ai_brain'.goals_scored = ai_brain.goals_scored
             /\ ai_brain'.goals_conceded = ai_brain.goals_conceded
             /\ player'.score = player.score /\ ai_car'.score = ai_car.score
             /\ combo' = combo /\ time_left' = time_left
       /\ C16_InitGame =>
             /\ ai_brain'.aim_noise = 15 /\ ai_brain'.reaction_delay = Ms(250)
             /\ ai_brain'.goals_scored = 0 /\ ai_brain'.goals_conceded = 0
             /\ ai_brain'.state = "idle"]_vars

\* the next level started over a match that had goals on the board
C16_Witness ==
    /\ state = "playing" /\ handled = 1 /\ level_id = 1 /\ best_scores = PriorBest
    /\ time_left = MATCH_TIME /\ ai_brain.aim_noise = 15 /\ ai_brain.goals_conceded = 0

\* C17: whatever goals have fallen, 1 <= aim_noise <= 40 and
\* 0 <= reaction_delay <= 0.6 in every state of a match.
C17_BrainInRange ==
    /\ 1 <= ai_brain.aim_noise /\ ai_brain.aim_noise <= 40
    /\ 0 <= ai_brain.reaction_delay /\ ai_brain.reaction_delay <= Ms(600)

\* a goal of the AI with both values held at their ceilings
C17_Witness ==
    /\ JustScored /\ ai_brain.goals_scored > 15
    /\ ai_brain.aim_noise = 40 /\ ai_brain.reaction_delay = Ms(600)

\* a draw of random.uniform(-120, 120) made in this tick
C18_Draw(i) == Uniform(rng, i, -Px(120), Px(120))
C18_Draws == 1 .. 30
\* check_hazard_hit at the car's position, as Game.update calls it
C18_Hit(car) == check_hazard_hit(level_map, level_id, car.x, car.y, 16)
\* the car's velocity went from before to after by a random perturbation of
\* both axes if it touches a hazard, and stayed as it was if not
C18_Perturbed(before, after) ==
    IF C18_Hit(before)
    THEN \E i, j \in C18_Draws :
             /\ after.vx = before.vx + C18_Draw(i)
             /\ after.vy = before.vy + C18_Draw(j)
    ELSE after.vx = before.vx /\ after.vy = before.vy

\* C18 as stated: on every playing tick each of the two cars gets a random
\* perturbation of at most 120 per axis added to its velocity if
\* check_hazard_hit is true at its position, and none if it is not.
C18_BothCarsKicked ==
    [][PlayingTick =>
          \E c \in {Collided(keys', TickLength)} :
              /\ C18_Perturbed(c.player, player')
              /\ C18_Perturbed(c.ai_car, ai_car')]_vars

\* ---- C20 ----
\* the draws np.random.choice can be handed: the two ends of the range, the
\* two sides of every tenth, and the draw of this tick
C20_Draws ==
    {0, RngMod - 1, Draw(rng, 1)} \cup { (k * RngMod) \div 10 + d : k \in 1 .. 9, d \in {0, 1} }
C20_A == BallDanger(ball)
C20_B == BoostHuntRule(ai_car, level_map, level_id)
C20_C == AttackRule(ai_car, ball)
C20_InTable(st, r) ==
    \E k \in DOMAIN q_weights(st) : q_weights(st)[k][1] = r /\ q_weights(st)[k][2] > 0
C20_Expected(r) ==
    IF C20_A THEN r = "defend_goal"
    ELSE IF C20_B THEN r = "boost_hunt"
    ELSE IF C20_C THEN r = "attack_goal"
    ELSE C20_InTable(ai_brain.state, r) /\ r # ai_brain.state /\ r # "idle"

\* C20: choose_state applies its rules in strict priority: defend_goal
\* whenever rule (a) holds, whatever (b) and (c) say; boost_hunt when (b)
\* holds and (a) does not; attack_goal when (c) holds and neither (a) nor (b);
\* only when none holds is the result drawn from the weight table of the
\* current state, and then it is a key of that table with positive weight,
\* never the current state and never idle.
C20_StrictPriority ==
    \A u \in C20_Draws :
        C20_Expected(choose_state(ai_brain, ai_car, ball, level_map, level_id, u))

\* the brain has thought with rules (a) and (b) both holding, and defends
C20_Witness ==
    /\ ai_brain.think_timer > 0
    /\ C20_A /\ C20_B
    /\ ai_brain.state = "defend_goal"

\* ---- C21 ----
\* the get_controls call of this tick is a think tick
C21_Thinks == ai_brain.think_timer - TickLength <= 0
\* the brain object is replaced by _init_game
C21_NewBrain == handled' = handled + 1 /\ ai_brain' = AIBrainNew
C21_StateOnlyOnThink ==
    ai_brain'.state # ai_brain.state => ((PlayingTick /\ C21_Thinks) \/ C21_NewBrain)

\* C21 as stated: the AI's state changes only on a think tick, and for every
\* reaction_delay a match can reach the think tick leaves more than 1/60 s on
\* the think timer, so that the next tick of 1/60 s is not a think tick.
C21_NeverThinksTwiceRunning ==
    [][/\ C21_StateOnlyOnThink
       /\ (PlayingTick /\ C21_Thinks) => ai_brain'.think_timer > DT_FRAME]_vars

\* C21 amended: the AI's state changes only on a think tick (or when
\* _init_game makes a new brain); a think tick made with reaction_delay of
\* 0.10 s or more leaves at least 0.05 s on the think timer, so the next tick
\* of 1/60 s is not a think tick; with reaction_delay 0.05 s or 0, which
\* adaptation reaches once the player leads by three goals and more goals
\* fall, consecutive ticks can both be think ticks.
C21_ThinksApartWhenSlow ==
    [][/\ C21_StateOnlyOnThink
       /\ (PlayingTick /\ C21_Thinks /\ ai_brain.reaction_delay >= Ms(100)) =>
             ai_brain'.think_timer >= Ms(50)]_vars

\* a brain that adaptation has made faster has just thought and changed state
C21_Witness ==
    /\ ai_brain.goals_conceded >= 4 /\ ai_brain.goals_scored = 0
    /\ ai_brain.reaction_delay = Ms(100)
    /\ ai_brain.think_timer >= Ms(50)
    /\ ai_brain.state # "idle"

\* ---- C22 ----
\* what get_controls returns on this tick, and the state it has left the brain in
C22_Controls == get_controls(ai_brain, ai_car, ball, level_map, level_id, TickLength, rng)
\* the target of that state with this tick's jitter, and the AI car's distance to it
C22_Jitter(i) == Uniform(rng, i, -Px(ai_brain.aim_noise), Px(ai_brain.aim_noise))
C22_Target(st) == AITarget(st, ai_car, ball, level_map, level_id)
C22_Dist(st) ==
    v2_len(RDiv(C22_Target(st)[1] + C22_Jitter(3) - ai_car.x, PS),
           RDiv(C22_Target(st)[2] + C22_Jitter(4) - ai_car.y, PS))
C22_BoostStates == {"attack_goal", "defend_goal"}

\* C22: get_controls returns use_boost = true only if the AI car's boost meter
\* is above 40, the distance to the jittered target is above 150 and the AI's
\* state is attack_goal or defend_goal; so the AI car is never boosting while
\* its state is idle, chase_ball, retreat or boost_hunt.
C22_AIBoostsOnPurpose ==
    /\ [](ai_car.boosting => ai_brain.state \in C22_BoostStates)
    /\ [][PlayingTick =>
            \E ctl \in {C22_Controls} :
                ctl.use_boost =>
                    /\ ai_car.boost > 40 * TU
                    /\ C22_Dist(ctl.brain.state) > 150
                    /\ ctl.brain.state \in C22_BoostStates]_vars

\* the AI car boosting towards its goal
C22_Witness ==
    /\ ai_car.boosting /\ ai_brain.state = "defend_goal"
    /\ ai_car.boost < BOOST_MAX

\* ---- C23 ----
\* the state a playing tick of length dt with keys k must end in when its
\* stages run one after the other in the order listed, each on what the
\* stages before it have left
C23_InOrder(k, dt) ==
    \E p1 \in {CarUpdate(apply_input(player, k[1], k[2], k[3], k[4], k[5], dt),
                         dt, level_map, level_id)} :                       \* player
    \E lm1 \in {[level_map EXCEPT !.pads = p1.pads]} :
    \E ctl \in {get_controls(ai_brain, ai_car, ball, lm1, level_id, dt, rng)} :  \* AI decision
    \E a1 \in {CarUpdate(apply_input(ai_car, ctl.left, ctl.right, ctl.forward, ctl.back,
                                     ctl.use_boost, dt), dt, lm1, level_id)} :   \* AI car
    \E lm2 \in {[lm1 EXCEPT !.pads = a1.pads]} :
    \E b1 \in {BallUpdate(ball, dt, lm2, level_id)} :                      \* ball
    \E h1 \in {car_hit(b1, p1.car)} :                                      \* player hit
    \E h2 \in {car_hit(h1.ball, a1.car)} :                                 \* AI hit
    \E pk \in {HazardKick(h1.car, lm2, level_id, rng)} :                   \* hazard
    \E bd \in {GoalCheck(Board(player.score, ai_car.score, combo, ctl.brain), h2.ball)} :  \* goal
    \E tl \in {time_left - dt} :                                           \* timer
        /\ player' = [pk EXCEPT !.score = bd.pscore]
        /\ ai_car' = [h2.car EXCEPT !.score = bd.ascore]
        /\ ball' = h2.ball
        /\ ai_brain' = bd.brain
        /\ combo' = bd.combo
        /\ time_left' = IF tl <= 0 THEN 0 ELSE tl
        /\ state' = IF tl <= 0 THEN "gameover"
                    ELSE IF IsGoal(h2.ball) THEN "goal_flash" ELSE "playing"
        /\ winner' = IF tl <= 0 THEN WinnerOf(bd.pscore, bd.ascore) ELSE winner
        /\ level_map' = LevelMapUpdate(lm2, level_id, dt, rng)             \* arena timers

\* C23: within every playing tick the mutations occur in this order: player
\* input and physics, AI decision, AI car physics, ball physics, ball-car
\* collisions (player before AI), hazard check, goal check, timer decrement
\* and game-over check, arena timers; no later stage runs before an earlier one.
C23_StagesInOrder == [][PlayingTick => C23_InOrder(keys', TickLength)]_vars

\* a tick in which both cars hit the ball: the player's hit put the ball to
\* its right, the AI's hit, resolved after it, put the ball to the AI's left
C23_Witness ==
    /\ ball.x = ai_car.x - Px(BALL_RADIUS + CAR_HALF + 2)
    /\ player.vx < 0 /\ ai_car.vx > 0
    /\ player.x < ball.x

\* ---- C24 ----
\* pad i lies within pickup range of the place Car.update has left the car at
C24_Near(car, i) ==
    Dist(car.x, car.y, Px(GenPads(level_id)[i][1]), Px(GenPads(level_id)[i][2]))
        < Px(PAD_RADIUS + 16)
\* the car ends the tick with no more boost than recharging can give it
C24_NoGrant(before, after) == after.boost <= before.boost + BOOST_RECHARGE * TickLength
C24_Pad(i) == level_map.pads[i]

\* C24: a pad that a car picks up is inactive with cooldown 5.0, of which the
\* LevelMap.update of the same tick already takes dt; while inactive it
\* grants no boost to either car; it becomes active again on the first
\* LevelMap.update that brings the cooldown to <= 0, and on no other; an
\* inactive pad always has 0 < cooldown < 5.0 and every playing tick lowers
\* it by dt, so the pad becomes active again if playing ticks continue.
C24_PadCooldown ==
    /\ [](\A i \in DOMAIN level_map.pads :
              ~C24_Pad(i).active => (0 < C24_Pad(i).cooldown /\ C24_Pad(i).cooldown < Ms(5000)))
    /\ [][PlayingTick =>
            /\ \A i \in DOMAIN level_map.pads :
                  /\ (C24_Pad(i).active /\ (C24_Near(player', i) \/ C24_Near(ai_car', i))) =>
                        level_map'.pads[i] = [active |-> FALSE, cooldown |-> Ms(5000) - TickLength]
                  /\ (C24_Pad(i).active /\ ~C24_Near(player', i) /\ ~C24_Near(ai_car', i)) =>
                        level_map'.pads[i].active
                  /\ ~C24_Pad(i).active =>
                        /\ level_map'.pads[i].cooldown = C24_Pad(i).cooldown - TickLength
                        /\ level_map'.pads[i].active = (C24_Pad(i).cooldown - TickLength <= 0)
            /\ (\A i \in DOMAIN level_map.pads : C24_Near(player', i) => ~C24_Pad(i).active)
                  => C24_NoGrant(player, player')
            /\ (\A i \in DOMAIN level_map.pads : C24_Near(ai_car', i) => ~C24_Pad(i).active)
                  => C24_NoGrant(ai_car, ai_car')]_vars

\* the player has waited on pad 1 for it to come back and has taken it again
C24_Witness ==
    /\ level_id = 0 /\ player.x = Px(640) /\ player.y = Px(360)
    /\ level_map.pads[1] = [active |-> FALSE, cooldown |-> Ms(5000) - DT_FRAME]
    /\ player.boost > 70 * TU /\ player.boost < 80 * TU

\* ---- C25 ----
C25_Speed2(bl) == bl.vx * bl.vx + bl.vy * bl.vy
C25_Moved2 == (ball'.x - ball.x) * (ball'.x - ball.x) + (ball'.y - ball.y) * (ball'.y - ball.y)
\* 750 * dt pixels in position units
C25_Reach == (750 * PS * TickLength) \div TU

\* C25 as stated: the ball's speed is at most 750 in every state at the end
\* of a playing tick, after Ball.update and both car_hit calls, and no
\* playing tick displaces the ball by more than 750 * dt.
C25_BallCapped ==
    /\ [](C25_Speed2(ball) <= Px(750) * Px(750))
    /\ [][PlayingTick => C25_Moved2 <= C25_Reach * C25_Reach]_vars

\* ---- C26 ----
C26_Cfg == LEVELS(level_id)
C26_Count(kind, n) == IF kind \in C26_Cfg.hazards THEN n ELSE 0

C27_CountersMatchBoard ==
    /\ ai_brain.goals_scored = ai_car.score
    /\ ai_brain.goals_conceded = player.score
    /\ ai_brain.goals_scored - ai_brain.goals_conceded = ai_car.score - player.score

\* a goal has just fallen in a match in which both sides have scored
C27_Witness ==
    /\ JustScored
    /\ ai_car.score >= 2 /\ player.score >= 1 /\ ai_car.score # player.score
    /\ ai_brain.goals_scored = ai_car.score /\ ai_brain.goals_conceded = player.score

\* ---- C28 ----
\* C28: winner is undecided whenever the phase is playing or goal_flash, and
\* is one of player, ai, draw whenever the phase is gameover, across every
\* restart, next-level and level-select command.
C28_WinnerMatchesPhase ==
    /\ state \in {"playing", "goal_flash"} => winner = "none"
    /\ state = "gameover" => winner \in {"player", "ai", "draw"}

\* a match restarted from the gameover screen of a drawn match
C28_Witness ==
    /\ state = "playing" /\ winner = "none" /\ handled = 1
    /\ t >= MATCH_TIME /\ time_left = MATCH_TIME
    /\ best_scores[level_id] = 0

\* ---- C29 ----
\* C29: when a goal is registered on the playing tick on which the match
\* timer reaches zero, the goal is added to the scorer's score before the
\* winner and the best score are computed, and the tick ends in gameover, not
\* goal_flash; the match is never in goal_flash with time_left = 0.
C29_GoalOnLastTick ==
    /\ [](state = "goal_flash" => time_left > 0)
    /\ [][(PlayingTick /\ time_left - TickLength <= 0 /\ IsGoal(ball')) =>
            /\ check_goal("left", ball') => AIGoal
            /\ ~check_goal("left", ball') => PlayerGoal
            /\ winner' = WinnerOf(player'.score, ai_car'.score)
            /\ best_scores' = [best_scores EXCEPT ![level_id] =
                                  Max(best_scores[level_id], player'.score + ai_car'.score)]
            /\ state' = "gameover"
            /\ time_left' = 0]_vars

\* a match that was level until a goal on its last tick decided it, and whose
\* record counts that goal
C29_Witness ==
    /\ state = "gameover" /\ time_left = 0 /\ IsGoal(ball)
    /\ flash_timer = FLASH_TIME
    /\ player.score = ai_car.score + 1 /\ winner = "player"
    /\ best_scores[level_id] = player.score + ai_car.score

\* ---- C30 ----
\* a Game.update tick in a phase other than playing
C30_PausedTick == state # "playing" /\ t' > t

====
